---- MODULE Spec2Model ----
(***************************************************************************)
(* The interaction state machine of the diagram editor: InteractionManager *)
(* (selection, inline editing, context menus, click debounce, deferred     *)
(* blur), ConnectionManager (connection draft and store) and               *)
(* ElementManager (shape store).                                           *)
(*                                                                         *)
(* An element or a connection object is identified by the number of its    *)
(* id ("element-N", "connection-N", both drawn from idCounter).  A content *)
(* div is identified by the element whose SVG group holds it.  The DOM is  *)
(* modelled by the sets of elements that carry a class or a listener.      *)
(***************************************************************************)
EXTENDS Integers, Sequences, FiniteSets, TLC

\* ---------------------------------------------------------------- bounds
\* Element objects created by drops
MaxElements == 2
\* Connection objects created by completed drafts
MaxConnections == 1
\* timer handles 1..MaxTimers
MaxTimers == 2
\* input events a pending single-click timer waits through before it expires
MaxClickDelay == 1
\* input events a pending zero-delay callback waits through before it runs
MaxDeferDelay == 1
\* shapes the store holds before a placement is tried
MaxPlaced == 2
\* shapes and connections of the store a shape is dragged in
MaxDragged == 3
MaxLinked == 2

\* null
None == 0

\* the ids idCounter hands out
Ids == 1..(MaxElements + MaxConnections)
\* the null Connection reference
NullConnection == [id |-> None, sourceElement |-> None, targetElement |-> None]
Handles == 1..MaxTimers

\* ---------------------------------------------------------------- strings
\* a string is a sequence of one-character strings
COMMAND == <<"c", "o", "m", "m", "a", "n", "d">>
SLICE == <<"s", "l", "i", "c", "e">>
BOGUS == <<"x">>
\* the texts a user types into the live edit surface
Texts == {<<" ">>, <<" ", "a", " ", "b", " ">>}
\* the payloads a drop carries
DropPayloads == {COMMAND, BOGUS, <<>>}
IsSpace(c) == c = " "

RECURSIVE TrimStart(_)
TrimStart(s) ==
    IF s # <<>> /\ IsSpace(Head(s)) THEN TrimStart(Tail(s)) ELSE s

RECURSIVE TrimEnd(_)
TrimEnd(s) ==
    IF s # <<>> /\ IsSpace(s[Len(s)]) THEN TrimEnd(SubSeq(s, 1, Len(s) - 1)) ELSE s

\* String.prototype.trim
Trim(s) == TrimEnd(TrimStart(s))

\* a || b on strings: the empty string is falsy
OrElse(a, b) == IF a # <<>> THEN a ELSE b

\* sequencing: what Rest makes of the value of first, which is worked out once
After(first, Rest(_)) == CHOOSE r \in {Rest(v) : v \in {first}} : TRUE

\* ---------------------------------------------------------------- state
VARIABLES
    elements,            \* ElementManager.elements (ids of the Element objects)
    type,                \* Element.type
    name,                \* Element.name
    elConnections,       \* Element.connections (Connection objects)
    divText,             \* text of each element's content div
    x,                   \* Element.x
    y,                   \* Element.y
    connections,         \* ConnectionManager.connections: [id, sourceElement, targetElement]
    sourcePoint,         \* Connection.sourcePoint of each connection id: [x, y, side]
    targetPoint,         \* Connection.targetPoint
    idCounter,           \* idCounter of Element/Connection ids
    selectedElement,
    currentEditingDiv,
    currentDraggingElement,
    contentEditable,     \* divs with contentEditable = 'true' (class editing, tabindex)
    listeners,           \* divs with the keydown and blur listeners attached
    selectedClass,       \* SVG groups with class element-selected
    elementContextMenu,  \* the element the menu is displayed at, None when display: none
    connectionContextMenu,   \* TRUE when displayed
    contextTargetConnection,
    connectionMode,
    sourceElement,
    tempConnection,      \* TRUE when the dashed draft path exists
    clickTimeout,        \* handle of the pending single-click timer
    lastClickTargetId,
    timers,              \* pending setTimeout(.., MAX_DBL_CLICK_TIME) callbacks
    blurCallbacks,       \* pending deferred blur decisions
    focusCallbacks,      \* divs with a pending deferred focus()
    activeElement,       \* the content div that is document.activeElement, None for any other node
    isPanning,
    isPanningKeyPressed,
    panStartX,
    panStartY,
    cursor,              \* canvas.node.style.cursor
    clickAge,            \* input events handled since the pending single-click timer was set
    deferAge,            \* input events handled since the oldest pending zero-delay callback was posted
    tracked,             \* the handlers under observation, with the fields kept
    ended,               \* the pending blur decisions whose edit has ended since the blur (when kept)
    last                 \* the last run of an observed handler, with the state it started in

vars == <<elements, type, name, elConnections, divText, x, y, connections,
          sourcePoint, targetPoint, idCounter,
          selectedElement, currentEditingDiv, currentDraggingElement,
          contentEditable, listeners, selectedClass, elementContextMenu,
          connectionContextMenu, contextTargetConnection, connectionMode,
          sourceElement, tempConnection, clickTimeout, lastClickTargetId,
          timers, blurCallbacks, focusCallbacks, activeElement, isPanning,
          isPanningKeyPressed, panStartX, panStartY, cursor, clickAge,
          deferAge, tracked, ended, last>>

\* the program state as one record, so that a handler is the composition of
\* the functions it calls
St ==
    [elements |-> elements, type |-> type, name |-> name,
     elConnections |-> elConnections, divText |-> divText, x |-> x, y |-> y,
     connections |-> connections, sourcePoint |-> sourcePoint,
     targetPoint |-> targetPoint, idCounter |-> idCounter,
     selectedElement |-> selectedElement, currentEditingDiv |-> currentEditingDiv,
     currentDraggingElement |-> currentDraggingElement,
     contentEditable |-> contentEditable, listeners |-> listeners,
     selectedClass |-> selectedClass, elementContextMenu |-> elementContextMenu,
     connectionContextMenu |-> connectionContextMenu,
     contextTargetConnection |-> contextTargetConnection,
     connectionMode |-> connectionMode, sourceElement |-> sourceElement,
     tempConnection |-> tempConnection, clickTimeout |-> clickTimeout,
     lastClickTargetId |-> lastClickTargetId, timers |-> timers,
     blurCallbacks |-> blurCallbacks, focusCallbacks |-> focusCallbacks,
     activeElement |-> activeElement, isPanning |-> isPanning,
     isPanningKeyPressed |-> isPanningKeyPressed, panStartX |-> panStartX,
     panStartY |-> panStartY, cursor |-> cursor]

\* the pending blur decisions, as far as they are kept, whose edit has ended
\* since their blur was raised, after a step to state s that has posted the
\* decisions posted
Ended(s, posted) ==
    IF <<"blurCallback", "ended">> \notin tracked THEN {}
    ELSE {cb \in s.blurCallbacks \ posted :
             \/ cb \in ended
             \/ /\ cb \in blurCallbacks
                /\ currentEditingDiv = cb.div
                /\ s.currentEditingDiv # cb.div}

\* a handler run that ends in state next and has posted the blur decisions posted
ApplyPosting(next, posted) ==
    \E s \in {next} :
        /\ ended' = Ended(s, posted)
        /\ elements' = s.elements
        /\ type' = s.type
        /\ name' = s.name
        /\ elConnections' = s.elConnections
        /\ divText' = s.divText
        /\ x' = s.x
        /\ y' = s.y
        /\ connections' = s.connections
        /\ sourcePoint' = s.sourcePoint
        /\ targetPoint' = s.targetPoint
        /\ idCounter' = s.idCounter
        /\ selectedElement' = s.selectedElement
        /\ currentEditingDiv' = s.currentEditingDiv
        /\ currentDraggingElement' = s.currentDraggingElement
        /\ contentEditable' = s.contentEditable
        /\ listeners' = s.listeners
        /\ selectedClass' = s.selectedClass
        /\ elementContextMenu' = s.elementContextMenu
        /\ connectionContextMenu' = s.connectionContextMenu
        /\ contextTargetConnection' = s.contextTargetConnection
        /\ connectionMode' = s.connectionMode
        /\ sourceElement' = s.sourceElement
        /\ tempConnection' = s.tempConnection
        /\ clickTimeout' = s.clickTimeout
        /\ lastClickTargetId' = s.lastClickTargetId
        /\ timers' = s.timers
        /\ blurCallbacks' = s.blurCallbacks
        /\ focusCallbacks' = s.focusCallbacks
        /\ activeElement' = s.activeElement
        /\ isPanning' = s.isPanning
        /\ isPanningKeyPressed' = s.isPanningKeyPressed
        /\ panStartX' = s.panStartX
        /\ panStartY' = s.panStartY
        /\ cursor' = s.cursor

Apply(next) == ApplyPosting(next, {})

\* canvas.findOne('#element-N'): the SVG group exists from createElement to removeElement
HasSvg(s, e) == e \in s.elements

\* ---------------------------------------------------------------- context menus
\* hideAllContextMenus without its last line
HideAllContextMenus_KeepsTarget(s) ==
    [s EXCEPT !.elementContextMenu = None,
              !.connectionContextMenu = FALSE]

HideAllContextMenus(s) ==
    [s EXCEPT !.elementContextMenu = None,
              !.connectionContextMenu = FALSE,
              !.contextTargetConnection = NullConnection]

ShowElementContextMenu(s, element) ==
    IF element = None THEN s
    ELSE LET s1 == [s EXCEPT !.connectionContextMenu = FALSE,
                             !.contextTargetConnection = NullConnection]
         IN  IF ~HasSvg(s1, element) THEN s1
             ELSE [s1 EXCEPT !.elementContextMenu = element]

\* showContextMenuForConnection that does not store the connection it is shown for
ShowContextMenuForConnection_KeepsTarget(s, connection) ==
    IF connection.id = None THEN s
    ELSE [s EXCEPT !.elementContextMenu = None,
                   !.selectedElement = None,
                   !.connectionContextMenu = TRUE]

ShowContextMenuForConnection(s, connection) ==
    IF connection.id = None THEN s
    ELSE [s EXCEPT !.elementContextMenu = None,
                   !.selectedElement = None,
                   !.contextTargetConnection = connection,
                   !.connectionContextMenu = TRUE]

\* a div that stops being editable cannot keep the focus
Unfocus(s, div) ==
    [s EXCEPT !.activeElement = IF @ = div THEN None ELSE @,
              !.focusCallbacks = @ \ {div}]

\* ---------------------------------------------------------------- inline edit
\* cancelInlineEdit that keeps the typed text as the label
CancelInlineEdit_KeepsText(s, showMenuAfter) ==
    IF s.selectedElement = None \/ s.currentEditingDiv = None THEN s
    ELSE LET element == s.selectedElement
             divNode == s.currentEditingDiv
         IN  IF ~HasSvg(s, element)
             THEN [s EXCEPT !.currentEditingDiv = None]
             ELSE LET s1 == [s EXCEPT
                                !.listeners = @ \ {divNode},
                                !.name[element] = s.divText[divNode],
                                !.contentEditable = @ \ {divNode},
                                !.currentEditingDiv = None]
                      s2 == Unfocus(s1, divNode)
                  IN  IF showMenuAfter THEN ShowElementContextMenu(s2, element)
                      ELSE HideAllContextMenus(s2)

CancelInlineEdit(s, showMenuAfter) ==
    IF s.selectedElement = None \/ s.currentEditingDiv = None THEN s
    ELSE LET element == s.selectedElement
             divNode == s.currentEditingDiv
         IN  IF ~HasSvg(s, element)
             THEN [s EXCEPT !.currentEditingDiv = None]
             ELSE LET s1 == [s EXCEPT
                                !.listeners = @ \ {divNode},
                                !.divText[divNode] = OrElse(s.name[element], s.type[element]),
                                !.contentEditable = @ \ {divNode},
                                !.currentEditingDiv = None]
                      s2 == Unfocus(s1, divNode)
                  IN  IF showMenuAfter THEN ShowElementContextMenu(s2, element)
                      ELSE HideAllContextMenus(s2)

\* handleSaveName without the trim() of the text it reads
HandleSaveName_NoTrim(s, showMenuAfter) ==
    LET elementToSave == s.selectedElement
        divToSaveFrom == s.currentEditingDiv
    IN  IF elementToSave = None \/ divToSaveFrom = None THEN s
        ELSE LET newName == s.divText[divToSaveFrom]
             IN  IF ~HasSvg(s, elementToSave)
                 THEN [s EXCEPT !.listeners = @ \ {divToSaveFrom},
                                !.currentEditingDiv = None]
                 ELSE LET saved == OrElse(newName, s.type[elementToSave])
                          s1 == [s EXCEPT
                                    !.contentEditable = @ \ {divToSaveFrom},
                                    !.listeners = @ \ {divToSaveFrom},
                                    !.name[elementToSave] = saved,
                                    !.divText[divToSaveFrom] = saved,
                                    !.currentEditingDiv = None]
                          s2 == Unfocus(s1, divToSaveFrom)
                      IN  IF showMenuAfter THEN ShowElementContextMenu(s2, elementToSave)
                          ELSE HideAllContextMenus(s2)

\* handleSaveName without the fallback to the element's type
HandleSaveName_NoDefault(s, showMenuAfter) ==
    LET elementToSave == s.selectedElement
        divToSaveFrom == s.currentEditingDiv
    IN  IF elementToSave = None \/ divToSaveFrom = None THEN s
        ELSE LET newName == Trim(s.divText[divToSaveFrom])
             IN  IF ~HasSvg(s, elementToSave)
                 THEN [s EXCEPT !.listeners = @ \ {divToSaveFrom},
                                !.currentEditingDiv = None]
                 ELSE LET s1 == [s EXCEPT
                                    !.contentEditable = @ \ {divToSaveFrom},
                                    !.listeners = @ \ {divToSaveFrom},
                                    !.name[elementToSave] = newName,
                                    !.divText[divToSaveFrom] = newName,
                                    !.currentEditingDiv = None]
                          s2 == Unfocus(s1, divToSaveFrom)
                      IN  IF showMenuAfter THEN ShowElementContextMenu(s2, elementToSave)
                          ELSE HideAllContextMenus(s2)

\* handleSaveName that leaves currentEditingDiv set
HandleSaveName_KeepsEditing(s, showMenuAfter) ==
    LET elementToSave == s.selectedElement
        divToSaveFrom == s.currentEditingDiv
    IN  IF elementToSave = None \/ divToSaveFrom = None THEN s
        ELSE LET newName == Trim(s.divText[divToSaveFrom])
             IN  IF ~HasSvg(s, elementToSave)
                 THEN [s EXCEPT !.listeners = @ \ {divToSaveFrom}]
                 ELSE LET saved == OrElse(newName, s.type[elementToSave])
                          s1 == [s EXCEPT
                                    !.contentEditable = @ \ {divToSaveFrom},
                                    !.listeners = @ \ {divToSaveFrom},
                                    !.name[elementToSave] = saved,
                                    !.divText[divToSaveFrom] = saved]
                          s2 == Unfocus(s1, divToSaveFrom)
                      IN  IF showMenuAfter THEN ShowElementContextMenu(s2, elementToSave)
                          ELSE HideAllContextMenus(s2)

HandleSaveName(s, showMenuAfter) ==
    LET elementToSave == s.selectedElement
        divToSaveFrom == s.currentEditingDiv
    IN  IF elementToSave = None \/ divToSaveFrom = None THEN s
        ELSE LET newName == Trim(s.divText[divToSaveFrom])
             IN  IF ~HasSvg(s, elementToSave)
                 THEN [s EXCEPT !.listeners = @ \ {divToSaveFrom},
                                !.currentEditingDiv = None]
                 ELSE LET saved == OrElse(newName, s.type[elementToSave])
                          s1 == [s EXCEPT
                                    !.contentEditable = @ \ {divToSaveFrom},
                                    !.listeners = @ \ {divToSaveFrom},
                                    !.name[elementToSave] = saved,
                                    !.divText[divToSaveFrom] = saved,
                                    !.currentEditingDiv = None]
                          s2 == Unfocus(s1, divToSaveFrom)
                      IN  IF showMenuAfter THEN ShowElementContextMenu(s2, elementToSave)
                          ELSE HideAllContextMenus(s2)

SelectElement(s, element) ==
    IF /\ s.currentEditingDiv # None
       /\ element # None
       /\ s.selectedElement = element
       /\ s.activeElement = s.currentEditingDiv
    THEN s
    ELSE LET previousSelectedElement == s.selectedElement
             s1 == IF /\ s.currentEditingDiv # None
                      /\ previousSelectedElement # None
                      /\ previousSelectedElement # element
                      /\ s.currentEditingDiv = previousSelectedElement
                   THEN HandleSaveName(s, FALSE) ELSE s
             s2 == IF previousSelectedElement # None /\ previousSelectedElement # element
                   THEN [s1 EXCEPT !.selectedClass = @ \ {previousSelectedElement}]
                   ELSE s1
             s3 == IF element # previousSelectedElement THEN HideAllContextMenus(s2) ELSE s2
             s4 == [s3 EXCEPT !.selectedElement = element]
         IN  IF element # None /\ HasSvg(s4, element)
             THEN LET s5 == [s4 EXCEPT !.selectedClass = @ \cup {element}]
                  IN  IF s5.currentEditingDiv = None \/ s5.currentEditingDiv # element
                      THEN ShowElementContextMenu(s5, element)
                      ELSE s5
             ELSE s4

\* showNameEditor without its "ensure element is selected" step
ShowNameEditor_NoSelect(s, element) ==
    IF element = None THEN s
    ELSE LET s1 == HideAllContextMenus(s)
             s2 == IF /\ s1.currentEditingDiv # None
                      /\ s1.selectedElement # None
                      /\ s1.selectedElement # element
                   THEN CancelInlineEdit(s1, TRUE) ELSE s1
         IN  IF /\ s2.currentEditingDiv # None
                /\ s2.selectedElement # None
                /\ s2.selectedElement = element
             THEN s2
             ELSE IF ~HasSvg(s2, element) THEN s2
                  ELSE [s2 EXCEPT
                          !.contentEditable = @ \cup {element},
                          !.listeners = @ \cup {element},
                          !.focusCallbacks = @ \cup {element},
                          !.currentEditingDiv = element]

\* showNameEditor that does not hide the menus when it starts
ShowNameEditor_KeepsMenus(s, element) ==
    IF element = None THEN s
    ELSE LET s2 == IF /\ s.currentEditingDiv # None
                      /\ s.selectedElement # None
                      /\ s.selectedElement # element
                   THEN CancelInlineEdit(s, TRUE) ELSE s
         IN  IF /\ s2.currentEditingDiv # None
                /\ s2.selectedElement # None
                /\ s2.selectedElement = element
             THEN s2
             ELSE LET s3 == IF s2.selectedElement # element
                            THEN [s2 EXCEPT
                                    !.selectedElement = element,
                                    !.selectedClass =
                                        IF HasSvg(s2, element) THEN @ \cup {element} ELSE @]
                            ELSE s2
                  IN  IF ~HasSvg(s3, element) THEN s3
                      ELSE [s3 EXCEPT
                              !.contentEditable = @ \cup {element},
                              !.listeners = @ \cup {element},
                              !.focusCallbacks = @ \cup {element},
                              !.currentEditingDiv = element]

ShowNameEditor(s, element) ==
    IF element = None THEN s
    ELSE LET s1 == HideAllContextMenus(s)
             s2 == IF /\ s1.currentEditingDiv # None
                      /\ s1.selectedElement # None
                      /\ s1.selectedElement # element
                   THEN CancelInlineEdit(s1, TRUE) ELSE s1
         IN  IF /\ s2.currentEditingDiv # None
                /\ s2.selectedElement # None
                /\ s2.selectedElement = element
             THEN s2
             ELSE LET s3 == IF s2.selectedElement # element
                            THEN [s2 EXCEPT
                                    !.selectedElement = element,
                                    !.selectedClass =
                                        IF HasSvg(s2, element) THEN @ \cup {element} ELSE @]
                            ELSE s2
                  IN  IF ~HasSvg(s3, element) THEN s3
                      ELSE [s3 EXCEPT
                              !.contentEditable = @ \cup {element},
                              !.listeners = @ \cup {element},
                              !.focusCallbacks = @ \cup {element},
                              !.currentEditingDiv = element]

\* ---------------------------------------------------------------- ConnectionManager
CancelConnection(s) ==
    IF ~s.connectionMode THEN s
    ELSE [s EXCEPT !.tempConnection = FALSE,
                   !.connectionMode = FALSE,
                   !.sourceElement = None]

\* ELEMENT_SIZES
WIDTH == 120
HEIGHT == 80
SLICE_WIDTH == 200
SLICE_HEIGHT == 400

\* the width and height the Element constructor gives a shape of a type
ElementWidth(elementType) == IF elementType = SLICE THEN SLICE_WIDTH ELSE WIDTH
ElementHeight(elementType) == IF elementType = SLICE THEN SLICE_HEIGHT ELSE HEIGHT

\* a connection that was never drawn has no anchor
NoPoint == [x |-> 0, y |-> 0, side |-> ""]

\* getConnectionPoints, in the order of its keys: top, right, bottom, left
GetConnectionPoints(s, e) ==
    LET w == ElementWidth(s.type[e])
        h == ElementHeight(s.type[e])
    IN  << [x |-> s.x[e] + w \div 2, y |-> s.y[e], side |-> "top"],
           [x |-> s.x[e] + w, y |-> s.y[e] + h \div 2, side |-> "right"],
           [x |-> s.x[e] + w \div 2, y |-> s.y[e] + h, side |-> "bottom"],
           [x |-> s.x[e], y |-> s.y[e] + h \div 2, side |-> "left"] >>

\* dx * dx + dy * dy: the square of the distance findBestConnectionPoint
\* compares (Math.sqrt keeps the order of these integers)
SquaredDistance(p, q) == (p.x - q.x) * (p.x - q.x) + (p.y - q.y) * (p.y - q.y)

\* no pair yet: bestSourcePoint and bestTargetPoint null, minDistance Infinity
NoPair == <<0, 0>>

\* the two loops of findBestConnectionPoint from their turn-th pass on (the
\* source side varies slowest), with best the pair kept so far; a later pair
\* replaces it when nearer, or when as near unless strict
RECURSIVE BestPairFrom(_, _, _, _, _)
BestPairFrom(sourcePoints, targetPoints, turn, best, strict) ==
    IF turn > 16 THEN best
    ELSE LET sourceSide == ((turn - 1) \div 4) + 1
             targetSide == ((turn - 1) % 4) + 1
             distance == SquaredDistance(sourcePoints[sourceSide], targetPoints[targetSide])
             minDistance == SquaredDistance(sourcePoints[best[1]], targetPoints[best[2]])
             nearer == \/ best = NoPair
                       \/ distance < minDistance
                       \/ ~strict /\ distance = minDistance
             rest(kept) == BestPairFrom(sourcePoints, targetPoints, turn + 1, kept, strict)
         IN  After(IF nearer THEN <<sourceSide, targetSide>> ELSE best, rest)

\* findBestConnectionPoint with distance <= minDistance as its test
FindBestConnectionPoint_LastWins(s, this, targetElement) ==
    LET sourcePoints == GetConnectionPoints(s, this)
        targetPoints == GetConnectionPoints(s, targetElement)
        best == BestPairFrom(sourcePoints, targetPoints, 1, NoPair, FALSE)
    IN  [source |-> sourcePoints[best[1]], target |-> targetPoints[best[2]]]

FindBestConnectionPoint(s, this, targetElement) ==
    LET sourcePoints == GetConnectionPoints(s, this)
        targetPoints == GetConnectionPoints(s, targetElement)
        best == BestPairFrom(sourcePoints, targetPoints, 1, NoPair, TRUE)
    IN  [source |-> sourcePoints[best[1]], target |-> targetPoints[best[2]]]

StartConnection(s, element) ==
    LET s1 == IF s.connectionMode THEN CancelConnection(s) ELSE s
    IN  [s1 EXCEPT !.connectionMode = TRUE,
                   !.sourceElement = element,
                   !.tempConnection = TRUE]

\* new Connection(source, target): the id is taken from idCounter
NewConnection(s, source, target) ==
    [id |-> s.idCounter, sourceElement |-> source, targetElement |-> target]

\* completeConnection without the targetElement === currentSource test
CompleteConnection_NoSelfCheck(s, targetElement) ==
    IF ~s.connectionMode \/ s.sourceElement = None
    THEN [s EXCEPT !.tempConnection = FALSE]
    ELSE LET currentSource == s.sourceElement
             s1 == [s EXCEPT !.connectionMode = FALSE,
                             !.sourceElement = None,
                             !.tempConnection = FALSE]
         IN  IF targetElement = None THEN s1
             ELSE LET connection == NewConnection(s1, currentSource, targetElement)
                  IN  [s1 EXCEPT
                         !.idCounter = @ + 1,
                         !.elConnections =
                             [e \in Ids |->
                                 IF e \in {currentSource, targetElement}
                                 THEN s1.elConnections[e] \cup {connection}
                                 ELSE s1.elConnections[e]],
                         !.connections = @ \cup {connection},
                         \* the Connection constructor, and createSVG again
                         !.sourcePoint[connection.id] =
                             FindBestConnectionPoint(s1, currentSource, targetElement).source,
                         !.targetPoint[connection.id] =
                             FindBestConnectionPoint(s1, currentSource, targetElement).target]

\* completeConnection that pushes the connection to the source's list only
CompleteConnection_SourceListOnly(s, targetElement) ==
    IF ~s.connectionMode \/ s.sourceElement = None
    THEN [s EXCEPT !.tempConnection = FALSE]
    ELSE LET currentSource == s.sourceElement
             s1 == [s EXCEPT !.connectionMode = FALSE,
                             !.sourceElement = None,
                             !.tempConnection = FALSE]
         IN  IF targetElement = None \/ targetElement = currentSource THEN s1
             ELSE LET connection == NewConnection(s1, currentSource, targetElement)
                  IN  [s1 EXCEPT
                         !.idCounter = @ + 1,
                         !.elConnections[currentSource] = @ \cup {connection},
                         !.connections = @ \cup {connection},
                         \* the Connection constructor, and createSVG again
                         !.sourcePoint[connection.id] =
                             FindBestConnectionPoint(s1, currentSource, targetElement).source,
                         !.targetPoint[connection.id] =
                             FindBestConnectionPoint(s1, currentSource, targetElement).target]

CompleteConnection(s, targetElement) ==
    IF ~s.connectionMode \/ s.sourceElement = None
    THEN [s EXCEPT !.tempConnection = FALSE]
    ELSE LET currentSource == s.sourceElement
             s1 == [s EXCEPT !.connectionMode = FALSE,
                             !.sourceElement = None,
                             !.tempConnection = FALSE]
         IN  IF targetElement = None \/ targetElement = currentSource THEN s1
             ELSE LET connection == NewConnection(s1, currentSource, targetElement)
                  IN  [s1 EXCEPT
                         !.idCounter = @ + 1,
                         !.elConnections =
                             [e \in Ids |->
                                 IF e \in {currentSource, targetElement}
                                 THEN s1.elConnections[e] \cup {connection}
                                 ELSE s1.elConnections[e]],
                         !.connections = @ \cup {connection},
                         \* the Connection constructor, and createSVG again
                         !.sourcePoint[connection.id] =
                             FindBestConnectionPoint(s1, currentSource, targetElement).source,
                         !.targetPoint[connection.id] =
                             FindBestConnectionPoint(s1, currentSource, targetElement).target]

RemoveConnection(s, connection) ==
    IF \/ connection.id = None
       \/ connection.sourceElement = None
       \/ connection.targetElement = None
    THEN s
    ELSE [s EXCEPT
            !.elConnections =
                [e \in Ids |->
                    IF e \in {connection.sourceElement, connection.targetElement}
                    THEN {c \in s.elConnections[e] : c.id # connection.id}
                    ELSE s.elConnections[e]],
            !.connections = {c \in @ : c.id # connection.id}]

\* getConnectionsForElement that matches the source end only
GetConnectionsForElement_SourceOnly(s, element) ==
    IF element = None THEN {}
    ELSE {c \in s.connections : c.sourceElement = element}

GetConnectionsForElement(s, element) ==
    IF element = None THEN {}
    ELSE {c \in s.connections :
             c.sourceElement = element \/ c.targetElement = element}

\* every connection of the manager, as the global pass of updateConnections
ConnectionsToUpdate_All(s, element) == s.connections

\* the filter of updateConnectionsForElement
ConnectionsToUpdate(s, element) ==
    {conn \in s.connections :
        conn.sourceElement = element \/ conn.targetElement = element}

\* updateConnectionsForElement: both branches of the forEach body set the two
\* points of the connection from findBestConnectionPoint
UpdateConnectionsForElement(s, element) ==
    IF element = None THEN s
    ELSE LET connectionsToUpdate == ConnectionsToUpdate(s, element)
             updated(c) == \E conn \in connectionsToUpdate : conn.id = c
             of(c) == CHOOSE conn \in connectionsToUpdate : conn.id = c
             best(c) == FindBestConnectionPoint(s, of(c).sourceElement, of(c).targetElement)
         IN  [s EXCEPT
                !.sourcePoint = [c \in DOMAIN @ |-> IF updated(c) THEN best(c).source ELSE @[c]],
                !.targetPoint = [c \in DOMAIN @ |-> IF updated(c) THEN best(c).target ELSE @[c]]]

\* ---------------------------------------------------------------- ElementManager
\* connectionsToRemove.forEach(conn => removeConnection(conn))
RECURSIVE RemoveConnections(_, _)
RemoveConnections(s, connectionsToRemove) ==
    IF connectionsToRemove = {} THEN s
    ELSE LET conn == CHOOSE c \in connectionsToRemove :
                        \A d \in connectionsToRemove : c.id <= d.id
         IN  RemoveConnections(RemoveConnection(s, conn), connectionsToRemove \ {conn})

RemoveElement(s, element) ==
    IF element = None THEN s
    ELSE LET s1 == RemoveConnections(s, GetConnectionsForElement(s, element))
             \* svgElement.remove(): the group and its content div leave the document
             s2 == [s1 EXCEPT !.selectedClass = @ \ {element},
                              !.activeElement = IF @ = element THEN None ELSE @]
         IN  [s2 EXCEPT !.elements = @ \ {element}]

\* Element.overlaps with boxes that must share an inner point
Overlaps_OpenBox(s, elementType, ex, ey, other) ==
    IF elementType = SLICE \/ s.type[other] = SLICE THEN FALSE
    ELSE ~(\/ ex + ElementWidth(elementType) <= s.x[other]
           \/ ex >= s.x[other] + ElementWidth(s.type[other])
           \/ ey + ElementHeight(elementType) <= s.y[other]
           \/ ey >= s.y[other] + ElementHeight(s.type[other]))

\* Element.overlaps: this is an element of type elementType at (ex, ey)
Overlaps(s, elementType, ex, ey, other) ==
    IF elementType = SLICE \/ s.type[other] = SLICE THEN FALSE
    ELSE ~(\/ ex + ElementWidth(elementType) < s.x[other]
           \/ ex > s.x[other] + ElementWidth(s.type[other])
           \/ ey + ElementHeight(elementType) < s.y[other]
           \/ ey > s.y[other] + ElementHeight(s.type[other]))

\* hasCollision with neither exemption of Slices: every box of the store counts
HasCollision_CountsSlices(s, elementType, ex, ey) ==
    \E other \in s.elements :
        ~(\/ ex + ElementWidth(elementType) < s.x[other]
          \/ ex > s.x[other] + ElementWidth(s.type[other])
          \/ ey + ElementHeight(elementType) < s.y[other]
          \/ ey > s.y[other] + ElementHeight(s.type[other]))

\* hasCollision for an element that is not in the list yet
HasCollision(s, elementType, ex, ey) ==
    IF elementType = SLICE THEN FALSE
    ELSE \E other \in s.elements :
            s.type[other] # SLICE /\ Overlaps(s, elementType, ex, ey, other)

\* createElement's bound on its offset attempts, and the offset of one attempt
maxAttempts == 5
OffsetStep == 20

\* the while loop of createElement: the position it ends at
RECURSIVE AvoidCollision(_, _, _, _, _)
AvoidCollision(s, elementType, ex, ey, attempts) ==
    IF HasCollision(s, elementType, ex, ey) /\ attempts < maxAttempts
    THEN AvoidCollision(s, elementType, ex + OffsetStep, ey + OffsetStep, attempts + 1)
    ELSE [x |-> ex, y |-> ey]

\* new Element(type, x, y, name), the collision avoidance, and the SVG
CreateElement(s, elementType, px, py) ==
    LET id == s.idCounter
        at == AvoidCollision(s, elementType, px, py, 0)
    IN  [s EXCEPT !.idCounter = @ + 1,
                  !.elements = @ \cup {id},
                  !.type[id] = elementType,
                  !.x[id] = at.x,
                  !.y[id] = at.y,
                  !.name[id] = <<>>,
                  !.elConnections[id] = {},
                  !.divText[id] = OrElse(<<>>, elementType)]

\* ---------------------------------------------------------------- drop payload
UpperChar(c) ==
    CASE c = "c" -> "C" [] c = "o" -> "O" [] c = "m" -> "M"
      [] c = "a" -> "A" [] c = "n" -> "N" [] c = "d" -> "D"
      [] c = "x" -> "X" [] c = "s" -> "S" [] c = "l" -> "L"
      [] c = "i" -> "I" [] c = "e" -> "E" [] OTHER -> c

ToUpperCase(str) == [i \in 1..Len(str) |-> UpperChar(str[i])]

\* String.prototype.replace with a string pattern: the first occurrence only
RECURSIVE ReplaceFirst(_, _, _)
ReplaceFirst(str, from, to) ==
    IF str = <<>> THEN <<>>
    ELSE IF Head(str) = from THEN <<to>> \o Tail(str)
    ELSE <<Head(str)>> \o ReplaceFirst(Tail(str), from, to)

\* the values of ELEMENT_TYPES this model creates shapes of
KnownKinds == {COMMAND, SLICE}

\* the keys of ELEMENT_TYPES whose kinds this model creates
ElementTypeKeys == {<<"C", "O", "M", "M", "A", "N", "D">>, <<"S", "L", "I", "C", "E">>}

\* a validation that takes every non-empty payload for a kind
IsKnownType_AnyNonEmpty(payload) == payload # <<>>

IsKnownType(payload) ==
    payload # <<>> /\ ReplaceFirst(ToUpperCase(payload), "-", "_") \in ElementTypeKeys

\* e.key of the space bar, and the name this model gives to a space keydown
\* with e.repeat set
SPACE == " "
REPEATED_SPACE == "repeated space"

\* ---------------------------------------------------------------- handlers
NoObservation ==
    [op |-> "", arg |-> None, tk |-> "", sel |-> None, edit |-> None,
     mode |-> FALSE, src |-> None, pend |-> None, conns |-> {}, text |-> <<>>,
     plot |-> {}]

\* <<op, f>> in tracked: field f of the runs of handler op is kept
Keeps(op, f) == <<op, f>> \in tracked

\* the run of handler op (a key press goes by the name of its key) on arg, with
\* target kind tk, and the state it started in, each as far as it is kept; a
\* run of which nothing is kept leaves no observation
Observed(op, arg, tk) ==
    IF \E k \in tracked : k[1] = op
    THEN [op |-> op,
          arg |-> IF Keeps(op, "arg") THEN arg ELSE None,
          tk |-> IF Keeps(op, "tk") THEN tk ELSE "",
          sel |-> IF Keeps(op, "sel") THEN selectedElement ELSE None,
          edit |-> IF Keeps(op, "edit") THEN currentEditingDiv ELSE None,
          mode |-> IF Keeps(op, "mode") THEN connectionMode ELSE FALSE,
          src |-> IF Keeps(op, "src") THEN sourceElement ELSE None,
          pend |-> IF Keeps(op, "pend") THEN lastClickTargetId ELSE None,
          conns |-> IF Keeps(op, "conns") THEN connections ELSE {},
          text |-> IF Keeps(op, "text") /\ currentEditingDiv # None
                   THEN divText[currentEditingDiv] ELSE <<>>,
          plot |-> {}]
    ELSE NoObservation

\* Element and Connection objects made so far
ElementsCreated == Cardinality({i \in Ids : type[i] # <<>>})
ConnectionsCreated == (idCounter - 1) - ElementsCreated

\* no drag gesture is under way: the pointer is free for another gesture
PointerFree == currentDraggingElement = None

\* the event loop has room for one more input event before the pending
\* callbacks: setTimeout(.., MAX_DBL_CLICK_TIME) and setTimeout(.., 0)
InputReady ==
    /\ timers # {} => clickAge < MaxClickDelay
    /\ blurCallbacks # {} \/ focusCallbacks # {} => deferAge < MaxDeferDelay

\* the ages after a step: by is 1 for an input event and 0 for a callback,
\* newTimer tells that the step has set the single-click timer
Aged(by, newTimer) ==
    /\ clickAge' = IF timers' = {} \/ newTimer THEN 0 ELSE clickAge + by
    /\ deferAge' = IF blurCallbacks' = {} /\ focusCallbacks' = {} THEN 0
                   ELSE IF blurCallbacks = {} /\ focusCallbacks = {} THEN 0
                   ELSE deferAge + by

InitProgram ==
    /\ elements = {}
    /\ type = [e \in Ids |-> <<>>]
    /\ name = [e \in Ids |-> <<>>]
    /\ elConnections = [e \in Ids |-> {}]
    /\ divText = [e \in Ids |-> <<>>]
    /\ x = [e \in Ids |-> 0]
    /\ y = [e \in Ids |-> 0]
    /\ connections = {}
    /\ sourcePoint = [c \in Ids |-> NoPoint]
    /\ targetPoint = [c \in Ids |-> NoPoint]
    /\ idCounter = 1
    /\ selectedElement = None
    /\ currentEditingDiv = None
    /\ currentDraggingElement = None
    /\ contentEditable = {}
    /\ listeners = {}
    /\ selectedClass = {}
    /\ elementContextMenu = None
    /\ connectionContextMenu = FALSE
    /\ contextTargetConnection = NullConnection
    /\ connectionMode = FALSE
    /\ sourceElement = None
    /\ tempConnection = FALSE
    /\ clickTimeout = None
    /\ lastClickTargetId = None
    /\ timers = {}
    /\ blurCallbacks = {}
    /\ focusCallbacks = {}
    /\ activeElement = None
    /\ isPanning = FALSE
    /\ isPanningKeyPressed = FALSE
    /\ panStartX = 0
    /\ panStartY = 0
    /\ cursor = ""
    /\ clickAge = 0
    /\ deferAge = 0
    /\ ended = {}
    /\ last = NoObservation

Init ==
    /\ InitProgram
    /\ tracked = {}

\* a clearTimeout that cancels nothing
ClearTimeout_Noop(s) == s

\* clearTimeout(this.clickTimeout)
ClearTimeout(s) == [s EXCEPT !.timers = {t \in @ : t.h # s.clickTimeout}]

\* handleCanvasClick, the branch of a click on an element: the handle of the
\* new timer is h, the target is the element's chrome or its content div
ClickOnElement(s, elementId, tk, h) ==
    LET s1 == IF s.clickTimeout # None
              THEN [ClearTimeout(s) EXCEPT !.clickTimeout = None]
              ELSE s
    IN  [s1 EXCEPT !.lastClickTargetId = elementId,
                   !.clickTimeout = h,
                   !.timers = @ \cup {[h |-> h, el |-> elementId, tk |-> tk]}]

\* handleCanvasClick, the branches of a click on a connection or the background
ClearPendingClick(s) ==
    IF s.clickTimeout # None
    THEN [ClearTimeout(s) EXCEPT !.clickTimeout = None, !.lastClickTargetId = None]
    ELSE s

ClickOnConnection(s, connection) ==
    LET s1 == ClearPendingClick(s)
        s2 == IF s1.currentEditingDiv # None /\ s1.selectedElement # None
              THEN HandleSaveName(s1, FALSE) ELSE s1
    IN  ShowContextMenuForConnection(SelectElement(s2, None), connection)

\* handleCanvasClick on the background without the cancelConnection() at its end
ClickOnBackground_KeepsDraft(s) ==
    LET s1 == ClearPendingClick(s)
        s2 == IF s1.currentEditingDiv # None /\ s1.selectedElement # None
              THEN HandleSaveName(s1, FALSE) ELSE s1
    IN  SelectElement(s2, None)

ClickOnBackground(s) ==
    LET s1 == ClearPendingClick(s)
        s2 == IF s1.currentEditingDiv # None /\ s1.selectedElement # None
              THEN HandleSaveName(s1, FALSE) ELSE s1
        s3 == SelectElement(s2, None)
    IN  IF s3.connectionMode THEN CancelConnection(s3) ELSE s3

\* the callback of the single-click timer t
\* the timer callback without its first two assignments
SingleClick_KeepsPending(s, t) ==
    LET clickedElement == t.el
        s0 == [s EXCEPT !.timers = @ \ {t}]
        connect(s1) ==
            LET s2 == IF /\ s1.selectedElement # clickedElement
                         /\ s1.selectedElement = s1.sourceElement
                         /\ s1.selectedElement # None
                      THEN [s1 EXCEPT !.selectedClass = @ \ {s1.selectedElement}]
                      ELSE s1
            IN  After(s2, LAMBDA s3 : CompleteConnection(s3, clickedElement))
        toggle(s1) ==
            IF s1.selectedElement = clickedElement
            THEN SelectElement(s1, None)
            ELSE SelectElement(s1, clickedElement)
    IN  IF s0.connectionMode
        THEN After(IF s0.currentEditingDiv # None /\ s0.selectedElement # None
                   THEN HandleSaveName(s0, FALSE) ELSE s0,
                   connect)
        ELSE IF s0.currentEditingDiv # None /\ s0.selectedElement = clickedElement
        THEN IF t.tk = "text" THEN s0 ELSE HandleSaveName(s0, TRUE)
        ELSE After(IF /\ s0.currentEditingDiv # None
                      /\ s0.selectedElement # None
                      /\ s0.selectedElement # clickedElement
                   THEN HandleSaveName(s0, FALSE) ELSE s0,
                   toggle)

SingleClick(s, t) ==
    LET clickedElement == t.el
        s0 == [s EXCEPT !.timers = @ \ {t},
                        !.clickTimeout = None,
                        !.lastClickTargetId = None]
        connect(s1) ==
            LET s2 == IF /\ s1.selectedElement # clickedElement
                         /\ s1.selectedElement = s1.sourceElement
                         /\ s1.selectedElement # None
                      THEN [s1 EXCEPT !.selectedClass = @ \ {s1.selectedElement}]
                      ELSE s1
            IN  After(s2, LAMBDA s3 : CompleteConnection(s3, clickedElement))
        toggle(s1) ==
            IF s1.selectedElement = clickedElement
            THEN SelectElement(s1, None)
            ELSE SelectElement(s1, clickedElement)
    IN  IF s0.connectionMode
        THEN After(IF s0.currentEditingDiv # None /\ s0.selectedElement # None
                   THEN HandleSaveName(s0, FALSE) ELSE s0,
                   connect)
        ELSE IF s0.currentEditingDiv # None /\ s0.selectedElement = clickedElement
        THEN IF t.tk = "text" THEN s0 ELSE HandleSaveName(s0, TRUE)
        ELSE After(IF /\ s0.currentEditingDiv # None
                      /\ s0.selectedElement # None
                      /\ s0.selectedElement # clickedElement
                   THEN HandleSaveName(s0, FALSE) ELSE s0,
                   toggle)

\* handleDoubleClick that leaves the pending single-click timer alone
DoubleClickOn_KeepsTimer(s, elementId, tk) ==
    IF tk = "text" /\ elementId \in s.contentEditable THEN s
    ELSE IF elementId \notin s.elements THEN s
    ELSE LET s2 == HideAllContextMenus(s)
             s3 == IF /\ s2.currentEditingDiv # None
                      /\ s2.selectedElement # None
                      /\ s2.selectedElement # elementId
                   THEN HandleSaveName(s2, FALSE) ELSE s2
         IN  ShowNameEditor(s3, elementId)

\* handleDoubleClick that leaves an edit of another element to showNameEditor
DoubleClickOn_NoCommit(s, elementId, tk) ==
    IF tk = "text" /\ elementId \in s.contentEditable THEN s
    ELSE LET s1 == IF s.clickTimeout # None /\ s.lastClickTargetId = elementId
                   THEN [ClearTimeout(s) EXCEPT !.clickTimeout = None,
                                                !.lastClickTargetId = None]
                   ELSE s
         IN  IF elementId \notin s1.elements THEN s1
             ELSE ShowNameEditor(HideAllContextMenus(s1), elementId)

\* handleDoubleClick on an element
DoubleClickOn(s, elementId, tk) ==
    IF tk = "text" /\ elementId \in s.contentEditable THEN s
    ELSE LET s1 == IF s.clickTimeout # None /\ s.lastClickTargetId = elementId
                   THEN [ClearTimeout(s) EXCEPT !.clickTimeout = None,
                                                !.lastClickTargetId = None]
                   ELSE s
         IN  IF elementId \notin s1.elements THEN s1
             ELSE LET s2 == HideAllContextMenus(s1)
                      s3 == IF /\ s2.currentEditingDiv # None
                               /\ s2.selectedElement # None
                               /\ s2.selectedElement # elementId
                            THEN HandleSaveName(s2, FALSE) ELSE s2
                  IN  ShowNameEditor(s3, elementId)

\* handleKeyDown without the early return of an active edit
HandleKeyDown_IgnoresEdit(s, key) ==
    IF key = "Delete" /\ s.selectedElement # None
    THEN SelectElement(RemoveElement(s, s.selectedElement), None)
    ELSE IF key = "Escape"
    THEN IF s.connectionMode THEN CancelConnection(s)
         ELSE SelectElement(HideAllContextMenus(s), None)
    ELSE s

\* handleKeyDown whose Escape also deselects after cancelling a draft
HandleKeyDown_EscapeDeselects(s, key) ==
    IF s.currentEditingDiv # None
    THEN IF key = "Escape" /\ s.connectionMode THEN CancelConnection(s) ELSE s
    ELSE IF key = "Delete" /\ s.selectedElement # None
    THEN SelectElement(RemoveElement(s, s.selectedElement), None)
    ELSE IF key = "Escape"
    THEN SelectElement(HideAllContextMenus(CancelConnection(s)), None)
    ELSE s

\* handleKeyDown, the document's listener
HandleKeyDown(s, key) ==
    IF s.currentEditingDiv # None
    THEN IF key = "Escape" /\ s.connectionMode THEN CancelConnection(s) ELSE s
    ELSE IF key = "Delete" /\ s.selectedElement # None
    THEN SelectElement(RemoveElement(s, s.selectedElement), None)
    ELSE IF key = "Escape"
    THEN IF s.connectionMode THEN CancelConnection(s)
         ELSE SelectElement(HideAllContextMenus(s), None)
    ELSE IF key = SPACE
    THEN [s EXCEPT !.isPanningKeyPressed = TRUE, !.cursor = "grab"]
    ELSE s

\* handleKeyUp, the document's listener
HandleKeyUp(s, key) ==
    IF key = SPACE /\ s.isPanningKeyPressed
    THEN [s EXCEPT !.isPanningKeyPressed = FALSE,
                   !.cursor = IF ~s.isPanning THEN "" ELSE @]
    ELSE s

\* handleCanvasMouseDown that does not look at what the pointer is on
HandleCanvasMouseDown_AnyTarget(s, elementId, button, client) ==
    IF button = 0 /\ s.isPanningKeyPressed
    THEN [s EXCEPT !.isPanning = TRUE,
                   !.panStartX = client.x,
                   !.panStartY = client.y,
                   !.cursor = "grabbing"]
    ELSE s

\* handleCanvasMouseDown: elementId is findElementId(e.target), None when the
\* target is inside no shape; client is (e.clientX, e.clientY)
HandleCanvasMouseDown(s, elementId, button, client) ==
    IF elementId # None THEN s
    ELSE IF button = 0 /\ s.isPanningKeyPressed
    THEN [s EXCEPT !.isPanning = TRUE,
                   !.panStartX = client.x,
                   !.panStartY = client.y,
                   !.cursor = "grabbing"]
    ELSE s

HandleCanvasMouseUp(s) ==
    IF s.isPanning
    THEN [s EXCEPT !.isPanning = FALSE,
                   !.cursor = IF ~s.isPanningKeyPressed THEN "" ELSE @]
    ELSE s

\* handleInlineEditorKeyDown whose Enter saves without asking for the menu
HandleInlineEditorKeyDown_EnterNoMenu(s, key) ==
    IF key = "Enter" THEN <<HandleSaveName(s, FALSE), FALSE>>
    ELSE IF key = "Escape" THEN <<CancelInlineEdit(s, TRUE), FALSE>>
    ELSE <<s, TRUE>>

\* handleInlineEditorKeyDown, the listener of the content div; the second
\* component tells whether the event goes on to the document
HandleInlineEditorKeyDown(s, key) ==
    IF key = "Enter" THEN <<HandleSaveName(s, TRUE), FALSE>>
    ELSE IF key = "Escape" THEN <<CancelInlineEdit(s, TRUE), FALSE>>
    ELSE <<s, TRUE>>

\* a keydown event: dispatched to the focused content div, if its listener is
\* attached, and then to the document unless propagation was stopped
DispatchKeyDown(s, key) ==
    IF s.activeElement # None /\ s.activeElement \in s.listeners
    THEN LET r == HandleInlineEditorKeyDown(s, key)
         IN  IF r[2] THEN HandleKeyDown(r[1], key) ELSE r[1]
    ELSE HandleKeyDown(s, key)

\* handleDrop that selects the new element without opening its editor
HandleDrop_NoEditor(s, payload, point) ==
    LET s1 == IF s.currentEditingDiv # None THEN CancelInlineEdit(s, TRUE) ELSE s
    IN  IF ~IsKnownType(payload) THEN s1
        ELSE LET s2 == CreateElement(s1, payload, point.x, point.y)
                 element == s1.idCounter
             IN  SelectElement(s2, element)

\* point is getCanvasPoint(e.clientX, e.clientY)
HandleDrop(s, payload, point) ==
    LET s1 == IF s.currentEditingDiv # None THEN CancelInlineEdit(s, TRUE) ELSE s
    IN  IF ~IsKnownType(payload) THEN s1
        ELSE LET s2 == CreateElement(s1, payload, point.x, point.y)
                 element == s1.idCounter
             IN  ShowNameEditor(SelectElement(s2, element), element)

CtxElDelete(s) ==
    LET s1 == IF s.currentEditingDiv # None /\ s.selectedElement # None
              THEN CancelInlineEdit(s, FALSE) ELSE s
    IN  IF s1.selectedElement # None
        THEN RemoveElement(SelectElement(s1, None), s1.selectedElement)
        ELSE s1

\* the ctx-el-connect handler without the commit of an active edit
CtxElConnect_NoSave(s) ==
    LET s2 == IF s.selectedElement # None
              THEN StartConnection(s, s.selectedElement) ELSE s
    IN  HideAllContextMenus(s2)

CtxElConnect(s) ==
    LET s1 == IF s.currentEditingDiv # None /\ s.selectedElement # None
              THEN HandleSaveName(s, FALSE) ELSE s
        s2 == IF s1.selectedElement # None
              THEN StartConnection(s1, s1.selectedElement) ELSE s1
    IN  HideAllContextMenus(s2)

CtxElEdit(s) ==
    IF s.selectedElement # None THEN ShowNameEditor(s, s.selectedElement)
    ELSE HideAllContextMenus(s)

CtxConnDelete(s) ==
    IF s.contextTargetConnection.id # None
    THEN HideAllContextMenus(RemoveConnection(s, s.contextTargetConnection))
    ELSE HideAllContextMenus(s)

GlobalUiActionHandler(s) ==
    IF s.currentEditingDiv # None /\ s.selectedElement # None
    THEN SelectElement(HandleSaveName(s, FALSE), None)
    ELSE IF s.selectedElement # None THEN SelectElement(s, None)
    ELSE s

\* a dragstart listener that discards the live text of an active edit
OnDragStart_Discards(s, element) ==
    LET s1 == [s EXCEPT !.currentDraggingElement = element]
    IN  HideAllContextMenus(IF s1.currentEditingDiv # None /\ s1.selectedElement # None
                            THEN CancelInlineEdit(s1, FALSE) ELSE s1)

\* the dragstart listener of an element's group
OnDragStart(s, element) ==
    LET s1 == [s EXCEPT !.currentDraggingElement = element]
        s2 == IF /\ s1.currentEditingDiv # None
                 /\ s1.selectedElement # None
                 /\ s1.selectedElement # element
              THEN HandleSaveName(s1, FALSE)
              ELSE IF /\ s1.currentEditingDiv # None
                      /\ s1.selectedElement # None
                      /\ s1.selectedElement = element
              THEN HandleSaveName(s1, FALSE)
              ELSE s1
    IN  HideAllContextMenus(s2)

\* the dragmove listener of element this: box is the box the gesture reports
OnDragMove(s, this, box) ==
    UpdateConnectionsForElement([s EXCEPT !.x[this] = box.x, !.y[this] = box.y], this)

OnDragEnd(s) == [s EXCEPT !.currentDraggingElement = None]

\* handleInlineEditorBlur up to its setTimeout: rt is the relatedTarget
HandleInlineEditorBlur(s, rt) ==
    IF s.currentEditingDiv = None \/ s.selectedElement = None THEN s
    ELSE [s EXCEPT !.blurCallbacks =
                       @ \cup {[div |-> s.currentEditingDiv,
                                el |-> s.selectedElement, rt |-> rt]}]

\* the deferred decision that asks for the menu whenever the focus went to a shape
BlurDecision_MenuForAnyElement(s, cb) ==
    LET s0 == [s EXCEPT !.blurCallbacks = @ \ {cb}]
    IN  IF s0.currentEditingDiv # cb.div THEN s0
        ELSE IF cb.rt.kind \in {"context-menu", "body", "controls-button", "palette-item"}
        THEN s0
        ELSE IF cb.rt.kind = "element"
        THEN HandleSaveName(s0, TRUE)
        ELSE IF cb.rt.kind = "other"
        THEN HandleSaveName(s0, FALSE)
        ELSE IF s0.activeElement # cb.div
        THEN HandleSaveName(s0, FALSE)
        ELSE s0

\* the deferred decision that does not test whether the edit is still the one
\* that lost the focus
BlurDecision_NoStillEditingTest(s, cb) ==
    LET s0 == [s EXCEPT !.blurCallbacks = @ \ {cb}]
    IN  IF cb.rt.kind \in {"context-menu", "body", "controls-button", "palette-item"}
        THEN s0
        ELSE IF cb.rt.kind = "element"
        THEN HandleSaveName(s0, cb.rt.el = cb.el)
        ELSE IF cb.rt.kind = "other"
        THEN HandleSaveName(s0, FALSE)
        ELSE IF s0.activeElement # cb.div
        THEN HandleSaveName(s0, FALSE)
        ELSE s0

\* the deferred decision of handleInlineEditorBlur
BlurDecision(s, cb) ==
    LET s0 == [s EXCEPT !.blurCallbacks = @ \ {cb}]
    IN  IF s0.currentEditingDiv # cb.div THEN s0
        ELSE IF cb.rt.kind \in {"context-menu", "body", "controls-button", "palette-item"}
        THEN s0
        ELSE IF cb.rt.kind = "element"
        THEN HandleSaveName(s0, cb.rt.el = cb.el)
        ELSE IF cb.rt.kind = "other"
        THEN HandleSaveName(s0, FALSE)
        ELSE IF s0.activeElement # cb.div
        THEN HandleSaveName(s0, FALSE)
        ELSE s0

\* contentDivNode.focus() of the deferred callbacks of showNameEditor; the div
\* that loses the focus gets a blur event
DeferredFocus(s, div) ==
    LET s0 == [s EXCEPT !.focusCallbacks = @ \ {div}]
    IN  IF ~HasSvg(s0, div) \/ div \notin s0.contentEditable THEN s0
        ELSE LET s1 == IF /\ s0.activeElement # None
                          /\ s0.activeElement # div
                          /\ s0.activeElement \in s0.listeners
                       THEN HandleInlineEditorBlur(s0, [kind |-> "element", el |-> div])
                       ELSE s0
             IN  [s1 EXCEPT !.activeElement = div]

\* ---------------------------------------------------------------- events
TargetKinds == {"chrome", "text"}
\* the canvas points a drop is released at
DropPoints == {[x |-> 0, y |-> 0]}
Keys == {"Enter", "ShiftEnter", "Escape", "Delete"}

\* the relatedTargets of a blur event
RelatedTargets(s) ==
    {[kind |-> k, el |-> None] :
        k \in {"context-menu", "other", "null"}}
    \cup {[kind |-> "element", el |-> e] : e \in s.elements}

\* a handle no pending timer has, once the handler has cleared its own
FreeHandles(s) == {h \in Handles : \A t \in ClearTimeout(s).timers : t.h # h}

\* click on the chrome or on the live edit surface of element e
Click(e, tk) ==
    /\ InputReady
    /\ PointerFree
    /\ e \in elements
    /\ tk = "text" => e \in contentEditable
    /\ FreeHandles(St) # {}
    /\ LET h == CHOOSE f \in FreeHandles(St) : \A g \in FreeHandles(St) : f <= g
       IN  Apply(ClickOnElement(St, e, tk, h))
    /\ Aged(1, TRUE)
    /\ tracked' = tracked
    /\ last' = Observed("click", e, tk)

\* a single-click timer expires
TimerExpires(t) ==
    /\ t \in timers
    /\ (connectionMode /\ t.el # sourceElement) => ConnectionsCreated < MaxConnections
    /\ tracked' = tracked
    /\ last' = Observed("timer", t.el, t.tk)
    /\ Apply(SingleClick(St, t))
    /\ Aged(0, FALSE)

ClickConnection(c) ==
    /\ InputReady
    /\ PointerFree
    /\ c \in connections
    /\ Apply(ClickOnConnection(St, c))
    /\ Aged(1, FALSE)
    /\ tracked' = tracked
    /\ last' = Observed("clickConnection", c.id, "")

ClickBackground ==
    /\ InputReady
    /\ PointerFree
    /\ Apply(ClickOnBackground(St))
    /\ Aged(1, FALSE)
    /\ tracked' = tracked
    /\ last' = Observed("clickBackground", None, "")

DoubleClick(e, tk) ==
    /\ InputReady
    /\ PointerFree
    /\ e \in elements
    /\ tk = "text" => e \in contentEditable
    /\ Apply(DoubleClickOn(St, e, tk))
    /\ Aged(1, FALSE)
    /\ tracked' = tracked
    /\ last' = Observed("dblclick", e, tk)

KeyDown(key) ==
    /\ InputReady
    /\ Apply(DispatchKeyDown(St, key))
    /\ Aged(1, FALSE)
    /\ tracked' = tracked
    /\ last' = Observed(key, activeElement, "")

KeyUp(key) ==
    /\ InputReady
    /\ Apply(HandleKeyUp(St, key))
    /\ Aged(1, FALSE)
    /\ tracked' = tracked
    /\ last' = Observed("keyup", activeElement, "")

\* a mousedown on the canvas node: on shape e, or on no shape when e is None
MouseDown(e, button, client) ==
    /\ InputReady
    /\ e \in elements \cup {None}
    /\ Apply(HandleCanvasMouseDown(St, e, button, client))
    /\ Aged(1, FALSE)
    /\ tracked' = tracked
    /\ last' = Observed("mousedown", e, IF button = 0 THEN "main" ELSE "auxiliary")

MouseUp ==
    /\ InputReady
    /\ Apply(HandleCanvasMouseUp(St))
    /\ Aged(1, FALSE)
    /\ tracked' = tracked
    /\ last' = Observed("mouseup", None, "")

\* the user replaces the text of the focused live edit surface
TypeText(t) ==
    /\ InputReady
    /\ activeElement # None
    /\ activeElement \in contentEditable
    /\ divText[activeElement] # t
    /\ Apply([St EXCEPT !.divText[activeElement] = t])
    /\ Aged(1, FALSE)
    /\ tracked' = tracked
    /\ last' = Observed("type", activeElement, "")

Drop(payload, point) ==
    /\ InputReady
    /\ PointerFree
    /\ IsKnownType(payload) => ElementsCreated < MaxElements
    /\ Apply(HandleDrop(St, payload, point))
    /\ Aged(1, FALSE)
    /\ tracked' = tracked
    /\ last' = Observed("drop", IF IsKnownType(payload) THEN idCounter ELSE None, "")

MenuDelete ==
    /\ InputReady
    /\ PointerFree
    /\ elementContextMenu # None
    /\ Apply(CtxElDelete(St))
    /\ Aged(1, FALSE)
    /\ tracked' = tracked
    /\ last' = Observed("ctx-el-delete", selectedElement, "")

MenuConnect ==
    /\ InputReady
    /\ PointerFree
    /\ elementContextMenu # None
    /\ Apply(CtxElConnect(St))
    /\ Aged(1, FALSE)
    /\ tracked' = tracked
    /\ last' = Observed("ctx-el-connect", selectedElement, "")

MenuEdit ==
    /\ InputReady
    /\ PointerFree
    /\ elementContextMenu # None
    /\ Apply(CtxElEdit(St))
    /\ Aged(1, FALSE)
    /\ tracked' = tracked
    /\ last' = Observed("ctx-el-edit", selectedElement, "")

MenuConnDelete ==
    /\ InputReady
    /\ PointerFree
    /\ connectionContextMenu
    /\ Apply(CtxConnDelete(St))
    /\ Aged(1, FALSE)
    /\ tracked' = tracked
    /\ last' = Observed("ctx-conn-delete", contextTargetConnection.id, "")

\* zoom-in, zoom-out, reset-view and the dragstart of a palette item
GlobalUiAction ==
    /\ InputReady
    /\ PointerFree
    /\ Apply(GlobalUiActionHandler(St))
    /\ Aged(1, FALSE)
    /\ tracked' = tracked
    /\ last' = Observed("globalUi", None, "")

DragStart(e) ==
    /\ InputReady
    /\ e \in elements
    /\ PointerFree
    /\ Apply(OnDragStart(St, e))
    /\ Aged(1, FALSE)
    /\ tracked' = tracked
    /\ last' = Observed("dragstart", e, "")

DragEnd ==
    /\ InputReady
    /\ currentDraggingElement # None
    /\ Apply(OnDragEnd(St))
    /\ Aged(1, FALSE)
    /\ tracked' = tracked
    /\ last' = Observed("dragend", currentDraggingElement, "")

\* the focused live edit surface loses the focus to rt; with no relatedTarget
\* the focus may also stay where it is (the window itself lost the focus)
Blur(rt, stays) ==
    /\ InputReady
    /\ PointerFree
    /\ activeElement # None
    /\ activeElement \in listeners
    /\ rt \in RelatedTargets(St)
    /\ stays => rt.kind = "null"
    /\ rt.kind = "element" => rt.el \in elements
    /\ ApplyPosting([HandleInlineEditorBlur(St, rt) EXCEPT
                        !.activeElement = IF stays THEN @ ELSE None],
                    HandleInlineEditorBlur([St EXCEPT !.blurCallbacks = {}], rt).blurCallbacks)
    /\ Aged(1, FALSE)
    /\ tracked' = tracked
    /\ last' = Observed("blur", activeElement, rt.kind)

BlurCallback(cb) ==
    /\ cb \in blurCallbacks
    /\ Apply(BlurDecision(St, cb))
    /\ Aged(0, FALSE)
    /\ tracked' = tracked
    /\ last' = Observed("blurCallback", cb.div, cb.rt.kind)

FocusCallback(div) ==
    /\ div \in focusCallbacks
    /\ ApplyPosting(DeferredFocus(St, div),
                    DeferredFocus([St EXCEPT !.blurCallbacks = {}], div).blurCallbacks)
    /\ Aged(0, FALSE)
    /\ tracked' = tracked
    /\ last' = Observed("focusCallback", div, "")

Next ==
    \/ \E e \in Ids, tk \in TargetKinds : Click(e, tk)
    \/ \E t \in timers : TimerExpires(t)
    \/ \E c \in connections : ClickConnection(c)
    \/ ClickBackground
    \/ \E e \in Ids, tk \in TargetKinds : DoubleClick(e, tk)
    \/ \E key \in Keys : KeyDown(key)
    \/ \E t \in Texts : TypeText(t)
    \/ \E payload \in DropPayloads, point \in DropPoints : Drop(payload, point)
    \/ MenuDelete
    \/ MenuConnect
    \/ MenuEdit
    \/ MenuConnDelete
    \/ GlobalUiAction
    \/ \E e \in Ids : DragStart(e)
    \/ DragEnd
    \/ \E rt \in RelatedTargets(St), stays \in BOOLEAN : Blur(rt, stays)
    \/ \E cb \in blurCallbacks : BlurCallback(cb)
    \/ \E div \in focusCallbacks : FocusCallback(div)

Spec == Init /\ [][Next]_vars

\* ---------------------------------------------------------------- observed runs
\* the same program with the runs of some handlers under observation
InitTimer ==
    /\ InitProgram
    /\ tracked = {"timer"} \X {"arg", "edit", "mode", "src"}

SpecTimer == InitTimer /\ [][Next]_vars

InitDoubleClick ==
    /\ InitProgram
    /\ tracked = {"dblclick"} \X {"arg", "tk", "pend", "mode"}

SpecDoubleClick == InitDoubleClick /\ [][Next]_vars

InitClick ==
    /\ InitProgram
    /\ tracked = {"click"} \X {"arg", "tk", "pend"}

SpecClick == InitClick /\ [][Next]_vars

InitDelete ==
    /\ InitProgram
    /\ tracked = ({"Delete"} \X {"sel", "edit", "conns"}) \cup {<<"ctx-el-delete", "op">>}

SpecDelete == InitDelete /\ [][Next]_vars

InitBackground ==
    /\ InitProgram
    /\ tracked = {"clickBackground"} \X {"mode", "pend"}

SpecBackground == InitBackground /\ [][Next]_vars

InitEdit ==
    /\ InitProgram
    /\ tracked = ({"Enter"} \X {"edit", "text"}) \cup ({"Escape"} \X {"arg", "edit", "text"})

SpecEdit == InitEdit /\ [][Next]_vars

InitDrop ==
    /\ InitProgram
    /\ tracked = {"drop"} \X {"arg", "edit"}

SpecDrop == InitDrop /\ [][Next]_vars

InitBlur ==
    /\ InitProgram
    /\ tracked = {"blurCallback"} \X {"arg", "tk", "edit"}

SpecBlur == InitBlur /\ [][Next]_vars

InitReedit ==
    /\ InitProgram
    /\ tracked = {"dblclick"} \X {"arg", "edit", "text"}

SpecReedit == InitReedit /\ [][Next]_vars

InitEscape ==
    /\ InitProgram
    /\ tracked = {"Escape"} \X {"edit", "mode", "sel"}

SpecEscape == InitEscape /\ [][Next]_vars

InitConnClick ==
    /\ InitProgram
    /\ tracked = {"clickConnection"} \X {"arg", "edit", "text"}

SpecConnClick == InitConnClick /\ [][Next]_vars

InitDragStart ==
    /\ InitProgram
    /\ tracked = {"dragstart"} \X {"arg", "edit", "text"}

SpecDragStart == InitDragStart /\ [][Next]_vars

\* ---------------------------------------------------------------- timers run
\* the connect action while the store has room for the connection of its draft
MenuConnectBounded ==
    /\ ConnectionsCreated < MaxConnections
    /\ MenuConnect

\* some pending single-click timer expires
SomeTimerExpires == \E t \in timers : TimerExpires(t)

\* the steps of Next but for the loss of focus of the edit surface, which
\* neither sets, clears nor runs a single-click timer. Drafts start only
\* while a connection can still be made, so that a pending timer can always
\* expire
NextLive ==
    \/ \E e \in Ids, tk \in TargetKinds : Click(e, tk)
    \/ SomeTimerExpires
    \/ \E c \in connections : ClickConnection(c)
    \/ ClickBackground
    \/ \E e \in Ids, tk \in TargetKinds : DoubleClick(e, tk)
    \/ \E key \in Keys : KeyDown(key)
    \/ \E t \in Texts : TypeText(t)
    \/ \E payload \in DropPayloads, point \in DropPoints : Drop(payload, point)
    \/ MenuDelete
    \/ MenuConnectBounded
    \/ MenuEdit
    \/ MenuConnDelete
    \/ GlobalUiAction
    \/ \E e \in Ids : DragStart(e)
    \/ DragEnd
    \/ \E div \in focusCallbacks : FocusCallback(div)

InitLive ==
    /\ InitProgram
    /\ tracked = {"timer"} \X {"arg"}

\* the timer queue of the page runs the callback of a timer that stays pending
SpecLive == InitLive /\ [][NextLive]_vars /\ WF_vars(SomeTimerExpires)

\* ---------------------------------------------------------------- panning
\* the keys of the panning gestures, e.button of the main and of the
\* auxiliary button, and the client points of a mousedown
PanKeys == {SPACE, REPEATED_SPACE, "Enter", "Escape"}
Buttons == {0, 1}
ClientPoints == {[x |-> 0, y |-> 0], [x |-> 10, y |-> 5]}

InitPan ==
    /\ InitProgram
    /\ tracked = {"mousedown"} \X {"arg", "tk"}

\* shapes are dropped and edited, keys go down and up, and the pointer goes
\* down and up on the canvas; the viewport the pan moves is left out
NextPan ==
    \/ \E payload \in DropPayloads, point \in DropPoints : Drop(payload, point)
    \/ \E div \in focusCallbacks : FocusCallback(div)
    \/ \E key \in PanKeys : KeyDown(key)
    \/ \E key \in PanKeys : KeyUp(key)
    \/ \E e \in Ids \cup {None}, button \in Buttons, client \in ClientPoints :
          MouseDown(e, button, client)
    \/ MouseUp

SpecPan == InitPan /\ [][NextPan]_vars

InitStale ==
    /\ InitProgram
    /\ tracked = {"blurCallback"} \X {"arg", "ended"}

SpecStale == InitStale /\ [][Next]_vars

InitConnect ==
    /\ InitProgram
    /\ tracked = {"ctx-el-connect"} \X {"arg"}

SpecConnect == InitConnect /\ [][Next]_vars

\* ---------------------------------------------------------------- placement
\* the positions of the shapes the store holds, and the positions requested
PlacedPoints == {[x |-> 0, y |-> 0], [x |-> 100, y |-> 100], [x |-> 40, y |-> 40]}
RequestPoints ==
    {[x |-> 0, y |-> 0], [x |-> 120, y |-> 80], [x |-> 121, y |-> 0], [x |-> -20, y |-> -20]}

\* a store of up to MaxPlaced shapes, dropped and dragged to their places,
\* with nothing selected and no gesture under way
InitPlacement ==
    /\ elements \in SUBSET (1..MaxPlaced)
    /\ \E kinds \in [1..MaxPlaced -> KnownKinds], points \in [1..MaxPlaced -> PlacedPoints] :
          /\ type = [e \in Ids |-> IF e \in elements THEN kinds[e] ELSE <<>>]
          /\ x = [e \in Ids |-> IF e \in elements THEN points[e].x ELSE 0]
          /\ y = [e \in Ids |-> IF e \in elements THEN points[e].y ELSE 0]
    /\ name = [e \in Ids |-> <<>>]
    /\ elConnections = [e \in Ids |-> {}]
    /\ divText = [e \in Ids |-> OrElse(name[e], type[e])]
    /\ connections = {}
    /\ sourcePoint = [c \in Ids |-> NoPoint]
    /\ targetPoint = [c \in Ids |-> NoPoint]
    /\ idCounter = MaxPlaced + 1
    /\ selectedElement = None
    /\ currentEditingDiv = None
    /\ currentDraggingElement = None
    /\ contentEditable = {}
    /\ listeners = {}
    /\ selectedClass = {}
    /\ elementContextMenu = None
    /\ connectionContextMenu = FALSE
    /\ contextTargetConnection = NullConnection
    /\ connectionMode = FALSE
    /\ sourceElement = None
    /\ tempConnection = FALSE
    /\ clickTimeout = None
    /\ lastClickTargetId = None
    /\ timers = {}
    /\ blurCallbacks = {}
    /\ focusCallbacks = {}
    /\ activeElement = None
    /\ isPanning = FALSE
    /\ isPanningKeyPressed = FALSE
    /\ panStartX = 0
    /\ panStartY = 0
    /\ cursor = ""
    /\ clickAge = 0
    /\ deferAge = 0
    /\ ended = {}
    /\ last = NoObservation
    /\ tracked = {"create"} \X {"arg"}

\* elementManager.createElement(elementType, point.x, point.y)
Create(elementType, point) ==
    /\ idCounter <= MaxPlaced + 1
    /\ Apply(CreateElement(St, elementType, point.x, point.y))
    /\ Aged(0, FALSE)
    /\ tracked' = tracked
    /\ last' = Observed("create", idCounter, "")

NextPlacement ==
    \E elementType \in KnownKinds, point \in RequestPoints : Create(elementType, point)

SpecPlacement == InitPlacement /\ [][NextPlacement]_vars

\* connection c has element e at one of its ends
Touches(c, e) == c.sourceElement = e \/ c.targetElement = e

\* ---------------------------------------------------------------- drag
\* the ids of a store of MaxDragged shapes joined by up to MaxLinked connections
DragIds == 1..(MaxDragged + MaxLinked)

\* where the shapes were dropped, and the box origins a drag gesture reports
StartPoint(e) == [x |-> 200 * (e - 1), y |-> 0]
DragBoxes == {[x |-> 0, y |-> 200], [x |-> 400, y |-> -300]}

\* MaxDragged shapes in a row, joined by connections drawn between them, with
\* nothing selected and no gesture under way
InitDrag ==
    /\ elements = 1..MaxDragged
    /\ \E kinds \in [1..MaxDragged -> KnownKinds] :
          type = [e \in DragIds |-> IF e \in elements THEN kinds[e] ELSE <<>>]
    /\ x = [e \in DragIds |-> IF e \in elements THEN StartPoint(e).x ELSE 0]
    /\ y = [e \in DragIds |-> IF e \in elements THEN StartPoint(e).y ELSE 0]
    /\ name = [e \in DragIds |-> <<>>]
    /\ divText = [e \in DragIds |-> OrElse(name[e], type[e])]
    /\ \E drawn \in SUBSET (DragIds \ elements),
          ends \in [DragIds \ elements -> {p \in elements \X elements : p[1] # p[2]}] :
          /\ connections = {[id |-> c, sourceElement |-> ends[c][1],
                             targetElement |-> ends[c][2]] : c \in drawn}
          /\ elConnections = [e \in DragIds |-> {c \in connections : Touches(c, e)}]
          /\ sourcePoint =
                [c \in DragIds |->
                    IF c \in drawn
                    THEN FindBestConnectionPoint([type |-> type, x |-> x, y |-> y],
                                                 ends[c][1], ends[c][2]).source
                    ELSE NoPoint]
          /\ targetPoint =
                [c \in DragIds |->
                    IF c \in drawn
                    THEN FindBestConnectionPoint([type |-> type, x |-> x, y |-> y],
                                                 ends[c][1], ends[c][2]).target
                    ELSE NoPoint]
    /\ idCounter = MaxDragged + MaxLinked + 1
    /\ selectedElement = None
    /\ currentEditingDiv = None
    /\ currentDraggingElement = None
    /\ contentEditable = {}
    /\ listeners = {}
    /\ selectedClass = {}
    /\ elementContextMenu = None
    /\ connectionContextMenu = FALSE
    /\ contextTargetConnection = NullConnection
    /\ connectionMode = FALSE
    /\ sourceElement = None
    /\ tempConnection = FALSE
    /\ clickTimeout = None
    /\ lastClickTargetId = None
    /\ timers = {}
    /\ blurCallbacks = {}
    /\ focusCallbacks = {}
    /\ activeElement = None
    /\ isPanning = FALSE
    /\ isPanningKeyPressed = FALSE
    /\ panStartX = 0
    /\ panStartY = 0
    /\ cursor = ""
    /\ clickAge = 0
    /\ deferAge = 0
    /\ ended = {}
    /\ last = NoObservation
    /\ tracked = {"dragmove"} \X {"arg", "plot"}

\* a dragmove event of the shape being dragged; what is kept of the run is
\* the shape and the connections the forEach body ran on
DragMove(box) ==
    /\ currentDraggingElement # None
    /\ Apply(OnDragMove(St, currentDraggingElement, box))
    /\ Aged(0, FALSE)
    /\ tracked' = tracked
    /\ last' = [Observed("dragmove", currentDraggingElement, "") EXCEPT
                   !.plot = IF Keeps("dragmove", "plot")
                            THEN ConnectionsToUpdate(St, currentDraggingElement)
                            ELSE {}]

NextDrag ==
    \/ \E e \in elements : DragStart(e)
    \/ \E box \in DragBoxes : DragMove(box)
    \/ DragEnd

SpecDrag == InitDrag /\ [][NextDrag]_vars

\* ---------------------------------------------------------------- claims
\* C1: whenever an inline edit is active, a shape is selected and it is the
\* shape whose label surface is being edited.
C1_EditingImpliesSelected ==
    currentEditingDiv # None =>
        selectedElement # None /\ selectedElement = currentEditingDiv

\* C1 witness: an edit is active on the selected shape while a single-click
\* timer for another shape and a deferred blur decision are both pending.
C1_Witness ==
    /\ currentEditingDiv # None
    /\ selectedElement = currentEditingDiv
    /\ \E t \in timers : t.el # currentEditingDiv
    /\ blurCallbacks # {}

\* C2: the selected shape and the shape being edited, when set, are shapes
\* of the ShapeStore (the code lets the single-click timer of a deleted shape
\* select it).
C2_SelectionRefersToStore ==
    /\ selectedElement # None => selectedElement \in elements
    /\ currentEditingDiv # None => currentEditingDiv \in elements

\* C3: a run of the Delete key with no edit active, or of the delete menu
\* action, on the selected shape S removes S, removes exactly the connections
\* touching S from the ConnectionStore and from every shape's connection list,
\* and leaves no selection and no edit; the state removeElement is in after its
\* connection loop still holds S and holds no connection touching S.
C3_DeleteCascades ==
    [][\A S \in Ids :
          (/\ selectedElement = S
           /\ \/ last'.op = "ctx-el-delete"
              \/ last'.op = "Delete" /\ currentEditingDiv = None)
          => /\ S \notin elements'
             /\ connections' = {c \in connections : ~Touches(c, S)}
             /\ \A e \in Ids :
                   elConnections'[e] = {c \in elConnections[e] : ~Touches(c, S)}
             /\ selectedElement' = None
             /\ currentEditingDiv' = None
             /\ LET mid == RemoveConnections(St, GetConnectionsForElement(St, S))
                IN  /\ S \in elements => S \in mid.elements
                    /\ GetConnectionsForElement(mid, S) = {}
                    /\ \A e \in Ids : \A c \in mid.elConnections[e] : ~Touches(c, S)
      ]_vars

\* C3 witness: the Delete key has removed the selected shape, which had a
\* connection to a shape that is still there, and that connection is gone
\* from the store and from the neighbour's list.
C3_Witness ==
    /\ last.op = "Delete"
    /\ last.edit = None
    /\ last.sel # None
    /\ last.sel \notin elements
    /\ selectedElement = None
    /\ \E c \in last.conns :
          /\ Touches(c, last.sel)
          /\ c \notin connections
          /\ \E e \in elements : Touches(c, e) /\ c \notin elConnections[e]

\* C4: a step that adds a connection adds one whose source and target are
\* shapes of the ShapeStore (the code completes a draft whose source was
\* deleted, and a draft onto a shape deleted while its click was pending).
C4_NoConnectionToMissingShape ==
    [][\A c \in connections' :
          c \notin connections =>
              c.sourceElement \in elements /\ c.targetElement \in elements
      ]_vars

\* C5: no connection of the ConnectionStore has the same shape as source and
\* target, and the single click on the draft's own source shape ends the
\* draft without creating a connection.
C5_NoSelfConnection ==
    [][/\ \A c \in connections' : c.sourceElement # c.targetElement
       /\ (last'.op = "timer" /\ connectionMode /\ last'.arg = sourceElement)
          => /\ ~connectionMode'
             /\ sourceElement' = None
             /\ ~tempConnection'
             /\ connections' = connections
             /\ elConnections' = elConnections
      ]_vars

\* C5 witness: the single click on the draft's own source has run; the draft
\* is gone and the store holds no connection.
C5_Witness ==
    /\ last.op = "timer"
    /\ last.mode
    /\ last.arg = last.src
    /\ ~connectionMode
    /\ connections = {}

\* C6: an Escape key press while an inline edit and a connection draft are
\* both active cancels the draft and leaves the edit as it is (with the focus
\* in the edit surface the code cancels the edit and keeps the draft).
C6_EscapeCancelsDraftOnly ==
    [][(/\ KeyDown("Escape")
        /\ currentEditingDiv # None
        /\ connectionMode)
       => /\ ~connectionMode'
          /\ currentEditingDiv' = currentEditingDiv
          /\ divText' = divText
          /\ name' = name
      ]_vars

\* the state a single click on B is in when it has ended the edit of A: the
\* label of A is the trimmed live text (the kind's name when that is empty),
\* B is selected with its menu shown, no edit is active
SavedAndSelected(A, B) ==
    /\ name'[A] = OrElse(Trim(divText[A]), type[A])
    /\ selectedElement' = B
    /\ elementContextMenu' = B
    /\ ~connectionContextMenu'
    /\ currentEditingDiv' = None

\* the single-click timer of shape B expires while A # B is being edited
TimerWhileEditingOther(A, B) ==
    /\ last'.op = "timer"
    /\ last'.arg = B
    /\ B \in elements
    /\ currentEditingDiv = A
    /\ A # None
    /\ A # B

\* C7 as stated: the single click on B that ends the edit of A saves A's label
\* and selects B with its menu, whether a connection draft is active or not.
C7_ClickOtherWhileEditing_AsStated ==
    [][\A A, B \in Ids : TimerWhileEditingOther(A, B) => SavedAndSelected(A, B)]_vars

\* C7: with no connection draft active, a click on B while A is edited ends
\* with A's label saved from the live text, B selected with B's menu shown and
\* no edit, in either order of the timer and the deferred blur decision:
\* (1) no step taken while A is edited removes another shape;
\* (2) the timer of B expiring while A is edited reaches that state at once;
\* (3) the blur decision of A, for a focus that did not go to A's own chrome,
\*     running while A is edited either leaves the edit as it is or saves A's
\*     label, shows no menu and keeps A selected;
\* (4) the timer of B expiring after that selects B and shows its menu, and
\*     changes no label.
C7_ClickOtherWhileEditing ==
    [][/\ currentEditingDiv # None => (elements \ {currentEditingDiv}) \subseteq elements'
       /\ \A A, B \in Ids :
             (TimerWhileEditingOther(A, B) /\ ~connectionMode) => SavedAndSelected(A, B)
       /\ \A cb \in blurCallbacks :
             (/\ BlurCallback(cb)
              /\ currentEditingDiv = cb.div
              /\ ~(cb.rt.kind = "element" /\ cb.rt.el = cb.el))
             => \/ /\ currentEditingDiv' = currentEditingDiv
                   /\ name' = name
                   /\ divText' = divText
                   /\ selectedElement' = selectedElement
                   /\ elementContextMenu' = elementContextMenu
                \/ /\ currentEditingDiv' = None
                   /\ name'[cb.el] = OrElse(Trim(divText[cb.div]), type[cb.el])
                   /\ selectedElement' = cb.el
                   /\ elementContextMenu' = None
       /\ \A B \in Ids :
             (/\ last'.op = "timer"
              /\ last'.arg = B
              /\ B \in elements
              /\ currentEditingDiv = None
              /\ ~connectionMode
              /\ selectedElement # B)
             => /\ selectedElement' = B
                /\ elementContextMenu' = B
                /\ currentEditingDiv' = None
                /\ name' = name
      ]_vars

\* C7 witness: the timer of another shape has expired during an edit with no
\* draft active; the typed text " a b " is saved as "a b", the clicked shape is
\* selected with its menu shown and no edit is active.
C7_Witness ==
    /\ last.op = "timer"
    /\ last.edit # None
    /\ last.arg # last.edit
    /\ ~last.mode
    /\ name[last.edit] = <<"a", " ", "b">>
    /\ selectedElement = last.arg
    /\ elementContextMenu = last.arg
    /\ currentEditingDiv = None

\* a double-click on S, at target kind tk, arrives while the single-click
\* timer of S is pending
DoubleClickWhilePending(S, tk) ==
    /\ last'.op = "dblclick"
    /\ last'.arg = S
    /\ last'.tk = tk
    /\ clickTimeout # None
    /\ lastClickTargetId = S

\* no single-click timer is left, and S is selected and being edited
TimerCancelledAndEditing(S) ==
    /\ timers' = {}
    /\ clickTimeout' = None
    /\ selectedElement' = S
    /\ currentEditingDiv' = S

\* C8 as stated: every double-click on S that arrives while the timer of S is
\* pending cancels the timer and leaves S selected and in Editing.
C8_DoubleClickCancelsTimer_AsStated ==
    [][\A S \in Ids, tk \in TargetKinds :
          DoubleClickWhilePending(S, tk) => TimerCancelledAndEditing(S)]_vars

\* C8: a double-click on S's chrome (not on its live edit surface) that
\* arrives while the timer of S is pending leaves no timer pending, so the
\* single-click action never runs, and leaves S selected and in Editing.
C8_DoubleClickCancelsTimer ==
    [][\A S \in Ids :
          DoubleClickWhilePending(S, "chrome") => TimerCancelledAndEditing(S)]_vars

\* C8 witness: a double-click on the chrome of a shape has arrived while the
\* shape's timer was pending and a connection draft was active; no timer is
\* left and the shape is being edited.
C8_Witness ==
    /\ last.op = "dblclick"
    /\ last.tk = "chrome"
    /\ last.pend = last.arg
    /\ last.mode
    /\ timers = {}
    /\ currentEditingDiv = last.arg
    /\ selectedElement = last.arg

\* C9: at most one single-click timer is pending, and it is the timer
\* clickTimeout and lastClickTargetId name; after a click on a shape the
\* pending timer is that click's, after a click on a connection or on the
\* background none is pending.
C9_OnePendingClick ==
    [][/\ Cardinality(timers') <= 1
       /\ \A t \in timers' : t.h = clickTimeout' /\ t.el = lastClickTargetId'
       /\ last'.op = "click"
          => timers' = {[h |-> clickTimeout', el |-> last'.arg, tk |-> last'.tk]}
       /\ (ClickBackground \/ \E c \in connections : ClickConnection(c))
          => timers' = {} /\ clickTimeout' = None
      ]_vars

\* C9 witness: a click on a shape has arrived while the timer of another shape
\* was pending, and exactly one timer is pending.
C9_Witness ==
    /\ last.op = "click"
    /\ last.pend # None
    /\ last.pend # last.arg
    /\ Cardinality(timers) = 1

\* C10: the single-click timer of S expiring with no edit and no draft active
\* deselects S and hides every menu when S is selected, and otherwise selects
\* S alone and shows its menu (the code shows no menu for an S that was
\* deleted while its timer was pending).
C10_SingleClickToggles ==
    [][\A t \in timers :
          (TimerExpires(t) /\ currentEditingDiv = None /\ ~connectionMode)
          => IF selectedElement = t.el
             THEN /\ selectedElement' = None
                  /\ elementContextMenu' = None
                  /\ ~connectionContextMenu'
             ELSE /\ selectedElement' = t.el
                  /\ selectedElement \notin selectedClass'
                  /\ elementContextMenu' = t.el
      ]_vars

\* C11: the single-click action of shape T running while a connection draft
\* from source S is active always ends the draft (connecting mode off, draft
\* source cleared, draft visual removed); when T differs from S exactly one
\* connection S -> T is added to the ConnectionStore and to the connection
\* lists of S and T, and when T is S the stores are unchanged.
C11_TimerCompletesDraft ==
    [][\A S, T \in Ids :
          (/\ last'.op = "timer"
           /\ last'.arg = T
           /\ connectionMode
           /\ sourceElement = S)
          => /\ ~connectionMode'
             /\ sourceElement' = None
             /\ ~tempConnection'
             /\ elements' = elements
             /\ IF T # S
                THEN \E c \in connections' :
                        /\ c \notin connections
                        /\ c.sourceElement = S
                        /\ c.targetElement = T
                        /\ connections' = connections \cup {c}
                        /\ \A e \in Ids :
                              elConnections'[e] =
                                  IF e \in {S, T} THEN elConnections[e] \cup {c}
                                  ELSE elConnections[e]
                ELSE /\ connections' = connections
                     /\ elConnections' = elConnections
      ]_vars

\* C11 witness: the single click on a shape other than the draft's source has
\* run during an edit; the draft is gone and the connection from the source
\* to the clicked shape is in the store and in both shapes' lists.
C11_Witness ==
    /\ last.op = "timer"
    /\ last.mode
    /\ last.src # None
    /\ last.arg # last.src
    /\ last.edit # None
    /\ ~connectionMode
    /\ sourceElement = None
    /\ ~tempConnection
    /\ \E c \in connections :
          /\ c.sourceElement = last.src
          /\ c.targetElement = last.arg
          /\ c \in elConnections[last.src]
          /\ c \in elConnections[last.arg]

\* C12: a click on the empty background while a connection draft is active
\* cancels the draft, leaves the ConnectionStore and the shapes' connection
\* lists as they are and leaves no shape selected; a single click still
\* pending on a shape is cancelled with it, so that it cannot complete the
\* draft afterwards.
C12_BackgroundCancelsDraft ==
    [][(last'.op = "clickBackground" /\ connectionMode)
       => /\ ~connectionMode'
          /\ sourceElement' = None
          /\ ~tempConnection'
          /\ connections' = connections
          /\ elConnections' = elConnections
          /\ selectedElement' = None
          /\ timers' = {}
          /\ clickTimeout' = None
      ]_vars

\* C12 witness: the background was clicked while a draft was active and a
\* single click on a shape was pending; no draft, no selection, no timer and
\* no connection is left.
C12_Witness ==
    /\ last.op = "clickBackground"
    /\ last.mode
    /\ last.pend # None
    /\ ~connectionMode
    /\ selectedElement = None
    /\ timers = {}
    /\ connections = {}

\* C13: after a click on the empty background, whatever the state before it,
\* the label of a shape that was being edited is saved from the live text, no
\* edit is active, no shape is selected and neither context menu is visible
\* (the code leaves the connection context menu visible when no shape was
\* selected and no edit was active).
C13_BackgroundClickClearsAll ==
    [][ClickBackground
       => /\ \A A \in Ids :
                currentEditingDiv = A =>
                    name'[A] = OrElse(Trim(divText[A]), type[A])
          /\ currentEditingDiv' = None
          /\ selectedElement' = None
          /\ elementContextMenu' = None
          /\ ~connectionContextMenu'
      ]_vars

\* r is t with its leading and its trailing spaces removed: t is r between
\* two runs of spaces, and r neither starts nor ends with a space
IsTrimOf(r, t) ==
    /\ \E i, j \in 0..Len(t) :
          /\ i + Len(r) + j = Len(t)
          /\ \A k \in 1..Len(t) :
                IF k <= i \/ k > i + Len(r) THEN IsSpace(t[k]) ELSE t[k] = r[k - i]
    /\ r # <<>> => ~IsSpace(r[1]) /\ ~IsSpace(r[Len(r)])

\* C14: in every state with an edit active on shape A, committing the edit
\* (handleSaveName, with or without the menu) sets A's label to the live text
\* with its leading and trailing whitespace removed and the rest preserved, or
\* to the kind's name when nothing is left; the edit is then inactive and the
\* label read from the shape and from its label surface is that value.
C14_CommitSavesTrimmedText ==
    \A A \in Ids, showMenuAfter \in BOOLEAN :
        currentEditingDiv = A =>
            LET r == HandleSaveName(St, showMenuAfter)
            IN  /\ \E v \in {r.name[A]} :
                      \/ v # <<>> /\ IsTrimOf(v, divText[A])
                      \/ v = type[A] /\ IsTrimOf(<<>>, divText[A])
                /\ r.divText[A] = r.name[A]
                /\ r.currentEditingDiv = None
                /\ A \notin r.contentEditable

\* C14 witness: Enter has committed an edit whose live text was " a b "; the
\* label and the label surface read "a b" and no edit is active.
C14_Witness ==
    /\ last.op = "Enter"
    /\ last.edit # None
    /\ last.text = <<" ", "a", " ", "b", " ">>
    /\ name[last.edit] = <<"a", " ", "b">>
    /\ divText[last.edit] = <<"a", " ", "b">>
    /\ currentEditingDiv = None

\* a step that cancels the edit of shape A: Escape typed into A's live edit
\* surface, the delete menu action, or a drop
CancelsEditOf(A) ==
    /\ currentEditingDiv = A
    /\ \/ KeyDown("Escape") /\ activeElement = A /\ A \in listeners
       \/ MenuDelete
       \/ \E payload \in DropPayloads, point \in DropPoints : Drop(payload, point)

\* the label of A, and the text of its label surface, are the label A had
\* before the step, and A's label surface is no longer editable
LabelKept(A) ==
    /\ name'[A] = name[A]
    /\ A \in elements' => divText'[A] = OrElse(name[A], type[A])
    /\ A \notin contentEditable'
    /\ currentEditingDiv' # A

\* C15 as stated: every cancelling step leaves the label as it was and leaves
\* no edit active.
C15_CancelKeepsLabel_AsStated ==
    [][\A A \in Ids :
          CancelsEditOf(A) => LabelKept(A) /\ currentEditingDiv' = None]_vars

\* C15: the label of a shape does not change while its edit stays active,
\* whatever is typed, and a cancelling step (Escape in the edit surface, the
\* delete menu action, a drop) leaves the label and the label surface as they
\* were when the edit began and ends the edit of that shape; no edit is active
\* afterwards except that a drop of a known kind starts the edit of the shape
\* it creates.
C15_CancelKeepsLabel ==
    [][\A A \in Ids :
          /\ (currentEditingDiv = A /\ currentEditingDiv' = A) => name'[A] = name[A]
          /\ CancelsEditOf(A)
             => /\ LabelKept(A)
                /\ \/ currentEditingDiv' = None
                   \/ /\ \E payload \in DropPayloads, point \in DropPoints :
                            IsKnownType(payload) /\ Drop(payload, point)
                      /\ currentEditingDiv' = idCounter
                      /\ idCounter \notin elements
      ]_vars

\* C15 witness: Escape has cancelled an edit of a shape labelled "a b" into
\* which " " had been typed; the label and the label surface still read
\* "a b" and no edit is active.
C15_Witness ==
    /\ last.op = "Escape"
    /\ last.edit # None
    /\ last.arg = last.edit
    /\ last.text = <<" ">>
    /\ name[last.edit] = <<"a", " ", "b">>
    /\ divText[last.edit] = <<"a", " ", "b">>
    /\ currentEditingDiv = None

\* C16: a commit that follows a commit with no edit started in between
\* changes nothing: in every state, handleSaveName applied to the state a
\* first handleSaveName leaves gives that state again (label, selection,
\* menus, shapes and connections included), with or without the menu
\* requested; and the deferred blur decision that runs after the edit it was
\* posted for has ended only retires itself.
C16_DoubleCommitIdempotent ==
    [][/\ \A a, b \in BOOLEAN :
             HandleSaveName(HandleSaveName(St, a), b) = HandleSaveName(St, a)
       /\ \A cb \in blurCallbacks :
             (BlurCallback(cb) /\ currentEditingDiv = None)
             => /\ blurCallbacks' = blurCallbacks \ {cb}
                /\ UNCHANGED <<elements, type, name, elConnections, divText,
                               connections, idCounter, selectedElement,
                               currentEditingDiv, contentEditable, listeners,
                               selectedClass, elementContextMenu,
                               connectionContextMenu, contextTargetConnection,
                               connectionMode, sourceElement, tempConnection>>
      ]_vars

\* C16 witness: Enter has committed the typed text " a b " of an edit whose
\* blur decision is still pending: the second commit is on its way, the
\* label reads "a b" and the shape's menu is shown.
C16_Witness ==
    /\ last.op = "Enter"
    /\ last.edit # None
    /\ last.text = <<" ", "a", " ", "b", " ">>
    /\ currentEditingDiv = None
    /\ \E cb \in blurCallbacks : cb.div = last.edit /\ cb.el = selectedElement
    /\ name[last.edit] = <<"a", " ", "b">>
    /\ elementContextMenu = last.edit

\* C17: Enter without Shift pressed in the live edit surface of shape S ends
\* the edit with S's label set to the trimmed typed text (the kind's name when
\* nothing is left of it), S still selected and S's element context menu
\* visible.
C17_EnterCommitsAndShowsMenu ==
    [][\A S \in Ids :
          (/\ last'.op = "Enter"
           /\ currentEditingDiv = S
           /\ activeElement = S
           /\ S \in listeners)
          => /\ currentEditingDiv' = None
             /\ S \notin contentEditable'
             /\ name'[S] = OrElse(Trim(divText[S]), type[S])
             /\ selectedElement' = S
             /\ S \in elements'
             /\ elementContextMenu' = S
             /\ ~connectionContextMenu'
      ]_vars

\* C17 witness: Enter has ended an edit into which " a b " was typed; the
\* shape is labelled "a b", is selected, and its menu is the one shown.
C17_Witness ==
    /\ last.op = "Enter"
    /\ last.edit # None
    /\ last.text = <<" ", "a", " ", "b", " ">>
    /\ name[last.edit] = <<"a", " ", "b">>
    /\ currentEditingDiv = None
    /\ selectedElement = last.edit
    /\ elementContextMenu = last.edit
    /\ ~connectionContextMenu
    /\ blurCallbacks = {}

\* the closed boxes (ax, ay, aw, ah) and (bx, by, bw, bh) have a point in
\* common; boxes that only touch at an edge or a corner do
BoxesMeet(ax, ay, aw, ah, bx, by, bw, bh) ==
    /\ ax <= bx + bw
    /\ bx <= ax + aw
    /\ ay <= by + bh
    /\ by <= ay + ah

\* the box of a new shape of a kind, k offset steps from (px, py), meets the
\* box of a non-Slice shape of the store
Blocked(kind, px, py, k) ==
    \E e \in elements :
        /\ type[e] # SLICE
        /\ BoxesMeet(px + 20 * k, py + 20 * k, ElementWidth(kind), ElementHeight(kind),
                     x[e], y[e], ElementWidth(type[e]), ElementHeight(type[e]))

\* the step has put shape new, of a non-Slice kind requested at (px, py), at
\* the first of the six offsets 0..5 that is not blocked, or at offset 5
PlacedAtFirstFree(new, kind, px, py) ==
    \E k \in 0..5 :
        /\ x'[new] = px + 20 * k
        /\ y'[new] = py + 20 * k
        /\ \A j \in 0..(k - 1) : Blocked(kind, px, py, j)
        /\ k = 5 \/ ~Blocked(kind, px, py, k)

\* C18: a drop whose payload names a known kind creates exactly one shape, of
\* that kind, at the drop point or its collision offset; an edit that was
\* active is cancelled with its shape's label unchanged; the new shape is
\* selected and in Editing and no context menu is visible.
C18_DropCreatesAndEdits ==
    [][\A payload \in DropPayloads, point \in DropPoints :
          (Drop(payload, point) /\ payload \in KnownKinds)
          => /\ idCounter \notin elements
             /\ elements' = elements \cup {idCounter}
             /\ type'[idCounter] = payload
             /\ PlacedAtFirstFree(idCounter, payload, point.x, point.y)
             /\ \A e \in elements : x'[e] = x[e] /\ y'[e] = y[e] /\ type'[e] = type[e]
             /\ connections' = connections
             /\ \A A \in Ids :
                   currentEditingDiv = A =>
                       /\ name'[A] = name[A]
                       /\ divText'[A] = OrElse(name[A], type[A])
                       /\ A \notin contentEditable'
             /\ selectedElement' = idCounter
             /\ currentEditingDiv' = idCounter
             /\ contentEditable' = {idCounter}
             /\ elementContextMenu' = None
             /\ ~connectionContextMenu'
      ]_vars

\* C18 witness: a drop onto the place of an existing shape has cancelled that
\* shape's edit and created a second shape, five offsets away, which is
\* selected and being edited with no menu shown.
C18_Witness ==
    /\ last.op = "drop"
    /\ last.arg # None
    /\ last.edit # None
    /\ last.edit \in elements
    /\ x[last.arg] = x[last.edit] + 100
    /\ y[last.arg] = y[last.edit] + 100
    /\ selectedElement = last.arg
    /\ currentEditingDiv = last.arg
    /\ elementContextMenu = None
    /\ ~connectionContextMenu

\* C19: a drop whose payload is empty or names no known kind creates no
\* shape: the ShapeStore (its shapes, their kinds and positions) and the
\* ConnectionStore are unchanged and the selected shape is the one selected
\* before.
C19_BadDropCreatesNothing ==
    [][\A payload \in DropPayloads, point \in DropPoints :
          (Drop(payload, point) /\ payload \notin KnownKinds)
          => UNCHANGED <<elements, type, x, y, idCounter, connections,
                          elConnections, selectedElement>>
      ]_vars

\* C19 witness: a drop with no known kind has arrived during an edit; the
\* shape that was edited is still selected, no shape was created and the
\* edit is over.
C19_Witness ==
    /\ last.op = "drop"
    /\ last.arg = None
    /\ last.edit # None
    /\ selectedElement = last.edit
    /\ currentEditingDiv = None
    /\ elements = {last.edit}

\* C20: createElement(kind, x, y) can be applied in every state of the store,
\* adds exactly one shape, of that kind, and moves no other; a shape of a
\* non-Slice kind is placed at (x+20k, y+20k) for the smallest k in 0..5 at
\* which its box meets the box of no non-Slice shape of the store (boxes that
\* only touch at an edge meet), or for k = 5 when it meets one at all six
\* positions.
C20_CreatePlacesAtFirstFreeOffset ==
    [][\A kind \in KnownKinds, point \in RequestPoints :
          /\ idCounter <= MaxPlaced + 1 => ENABLED Create(kind, point)
          /\ Create(kind, point)
          => /\ idCounter \notin elements
             /\ elements' = elements \cup {idCounter}
             /\ type'[idCounter] = kind
             /\ \A e \in elements : x'[e] = x[e] /\ y'[e] = y[e] /\ type'[e] = type[e]
             /\ kind # SLICE => PlacedAtFirstFree(idCounter, kind, point.x, point.y)
      ]_vars

\* C20 witness: a non-Slice shape has been created on top of two others, five
\* offsets from one that sits where it was requested and where the other
\* sits: all six positions met a shape and it was placed at the last.
C20_Witness ==
    /\ last.op = "create"
    /\ last.arg \in elements
    /\ type[last.arg] = COMMAND
    /\ \E e1, e2 \in elements \ {last.arg} :
          /\ type[e1] = COMMAND
          /\ type[e2] = COMMAND
          /\ x[last.arg] = x[e1] + 100
          /\ y[last.arg] = y[e1] + 100
          /\ x[last.arg] = x[e2]
          /\ y[last.arg] = y[e2]

\* C21: a Slice collides in neither role. A created Slice is placed exactly
\* where it was requested, whatever the store holds there; and a created
\* shape of any kind is placed exactly where it was requested when every
\* shape of the store whose box meets the requested box is a Slice.
C21_SliceNeverCollides ==
    [][\A kind \in KnownKinds, point \in RequestPoints :
          Create(kind, point)
          => /\ kind = SLICE => x'[idCounter] = point.x /\ y'[idCounter] = point.y
             /\ (\A e \in elements :
                    \/ type[e] = SLICE
                    \/ ~BoxesMeet(point.x, point.y, ElementWidth(kind), ElementHeight(kind),
                                  x[e], y[e], ElementWidth(type[e]), ElementHeight(type[e])))
                => x'[idCounter] = point.x /\ y'[idCounter] = point.y
      ]_vars

\* C21 witness: the store holds a Slice and a non-Slice shape at one place,
\* and a shape created at that very place is a Slice and sits there, not
\* offset by either of them.
C21_Witness ==
    /\ last.op = "create"
    /\ last.arg \in elements
    /\ type[last.arg] = SLICE
    /\ \E e1, e2 \in elements \ {last.arg} :
          /\ type[e1] = SLICE
          /\ type[e2] = COMMAND
          /\ x[e1] = x[last.arg] /\ y[e1] = y[last.arg]
          /\ x[e2] = x[last.arg] /\ y[e2] = y[last.arg]

\* C22: in every state with a shape S selected, the connect menu action ends
\* with a connection draft active whose source is S, S still selected and no
\* context menu visible; when S was being edited, its edit is over and its
\* label is the trimmed live text (or the kind's name when that is empty).
C22_ConnectCommitsAndStartsDraft ==
    \A S \in Ids :
        selectedElement = S =>
            LET r == CtxElConnect(St)
            IN  /\ r.connectionMode
                /\ r.sourceElement = S
                /\ r.tempConnection
                /\ r.selectedElement = S
                /\ r.elementContextMenu = None
                /\ ~r.connectionContextMenu
                /\ currentEditingDiv = S =>
                       /\ r.currentEditingDiv = None
                       /\ S \notin r.contentEditable
                       /\ r.name[S] = OrElse(Trim(divText[S]), type[S])
                       /\ r.divText[S] = r.name[S]
                /\ currentEditingDiv = None => r.name = name /\ r.divText = divText

\* C22 witness: the connect menu action has run with a shape selected; a draft
\* from that shape is active, the shape is still selected and no menu shows.
C22_Witness ==
    /\ last.op = "ctx-el-connect"
    /\ last.arg \in elements
    /\ connectionMode
    /\ sourceElement = last.arg
    /\ selectedElement = last.arg
    /\ elementContextMenu = None
    /\ ~connectionContextMenu

\* the point p is the middle of one of the four sides of shape e's box as
\* the next state holds it
OnBoxOf(p, e) ==
    \E side \in 1..4 :
        p = GetConnectionPoints([type |-> type', x |-> x', y |-> y'], e)[side]

\* C23: a drag-move of shape S to a reported box sets S's position to the
\* box origin and moves no other shape; it recomputes the anchors of exactly
\* the connections whose source or target is S, each to side middles of the
\* boxes of its two ends at their new positions, and leaves the cached
\* anchors of every other connection, and the store, unchanged.
C23_DragMoveUpdatesOnlyOwnConnections ==
    [][\A box \in DragBoxes :
          DragMove(box)
          => LET S == currentDraggingElement
             IN  /\ x'[S] = box.x
                 /\ y'[S] = box.y
                 /\ \A e \in DragIds \ {S} : x'[e] = x[e] /\ y'[e] = y[e]
                 /\ connections' = connections
                 /\ elements' = elements
                 /\ last'.plot = {c \in connections : Touches(c, S)}
                 /\ \A c \in connections :
                       IF Touches(c, S)
                       THEN /\ OnBoxOf(sourcePoint'[c.id], c.sourceElement)
                            /\ OnBoxOf(targetPoint'[c.id], c.targetElement)
                       ELSE /\ sourcePoint'[c.id] = sourcePoint[c.id]
                            /\ targetPoint'[c.id] = targetPoint[c.id]
      ]_vars

\* C23 witness: a shape has been dragged to a reported box; one connection of
\* the store ends at it and was recomputed, its anchor leaving the moved
\* shape's top side, and another connection, between two other shapes, was
\* not.
C23_Witness ==
    /\ last.op = "dragmove"
    /\ last.arg \in elements
    /\ [x |-> x[last.arg], y |-> y[last.arg]] \in DragBoxes
    /\ \E c1, c2 \in connections :
          /\ c1.sourceElement = last.arg
          /\ ~Touches(c2, last.arg)
          /\ last.plot = {c1}
          /\ sourcePoint[c1.id].side = "top"
          /\ sourcePoint[c1.id].y = y[last.arg]

\* the state after a click on the chrome of shape S, taken in a state where S
\* is edited with the focus in its edit surface: the press raises the blur
\* with relatedTarget rt, the click sets the single-click timer, and the
\* deferred blur decision and the timer callback run, in the order given
OwnChromeClick(S, rt, blurFirst) ==
    LET s1 == [HandleInlineEditorBlur(St, rt) EXCEPT !.activeElement = None]
        h == CHOOSE f \in FreeHandles(s1) : \A g \in FreeHandles(s1) : f <= g
        s2 == ClickOnElement(s1, S, "chrome", h)
        cb == [div |-> S, el |-> S, rt |-> rt]
        t == [h |-> h, el |-> S, tk |-> "chrome"]
    IN  IF blurFirst THEN SingleClick(BlurDecision(s2, cb), t)
        ELSE BlurDecision(SingleClick(s2, t), cb)

\* C24: when shape S is being edited, with the focus in its edit surface and
\* no connection draft active, a click on S's own chrome ends, once the
\* deferred blur decision and the single-click timer callback have both run
\* (in either order), with S's edit committed, S still selected and S's
\* context menu visible.
C24_OwnChromeClickCommitsAndShowsMenu ==
    \A S \in Ids :
        (/\ currentEditingDiv = S
         /\ selectedElement = S
         /\ activeElement = S
         /\ S \in elements
         /\ ~connectionMode
         /\ FreeHandles(St) # {})
        => \A rt \in {[kind |-> "null", el |-> None], [kind |-> "element", el |-> S]},
              blurFirst \in BOOLEAN :
              LET r == OwnChromeClick(S, rt, blurFirst)
              IN  /\ r.currentEditingDiv = None
                  /\ r.name[S] = OrElse(Trim(divText[S]), type[S])
                  /\ r.selectedElement = S
                  /\ r.elementContextMenu = S

\* the focus targets a blur of shape S's edit surface can report: a context
\* menu item, a toolbar button, a palette item, a shape, another node, none
FocusTargets ==
    {[kind |-> k, el |-> None] :
        k \in {"context-menu", "controls-button", "palette-item", "other", "null"}}
    \cup {[kind |-> "element", el |-> e] : e \in Ids}

\* state r is the current state with shape S's edit committed
CommittedIn(r, S) ==
    /\ r.currentEditingDiv = None
    /\ S \notin r.contentEditable
    /\ r.name[S] = OrElse(Trim(divText[S]), type[S])
    /\ r.divText[S] = r.name[S]
    /\ r.selectedElement = S

C26_StaleBlurDecisionDoesNothing ==
    [][\A cb \in blurCallbacks :
          (BlurCallback(cb) /\ cb \in ended)
          => UNCHANGED <<name, divText, currentEditingDiv, contentEditable, listeners,
                         selectedElement, selectedClass, elementContextMenu,
                         connectionContextMenu, contextTargetConnection, activeElement>>
      ]_vars

\* C27: a double-click on shape T while a different shape S is being edited
\* commits S's edit (S's label becomes its trimmed live text, or its kind's
\* name when that is empty), leaves no menu visible and ends with T selected
\* and being edited. Entering the edit of the shape that is already being
\* edited changes nothing: showNameEditor returns the state it was given, and
\* a double-click on that shape changes at most the pending single-click
\* timer.
C27_DoubleClickCommitsOtherEdit ==
    [][(currentEditingDiv # None /\ selectedElement = currentEditingDiv)
       => LET S == currentEditingDiv
          IN  /\ ShowNameEditor(St, S) = St
              /\ \A T \in Ids, tk \in TargetKinds :
                    DoubleClick(T, tk)
                    => IF S # T
                       THEN /\ name'[S] = OrElse(Trim(divText[S]), type[S])
                            /\ divText'[S] = name'[S]
                            /\ S \notin contentEditable'
                            /\ elementContextMenu' = None
                            /\ ~connectionContextMenu'
                            /\ selectedElement' = T
                            /\ currentEditingDiv' = T
                            /\ T \in contentEditable'
                       ELSE UNCHANGED <<elements, type, name, elConnections, divText, x, y,
                                        connections, sourcePoint, targetPoint, idCounter,
                                        selectedElement, currentEditingDiv,
                                        currentDraggingElement, contentEditable, listeners,
                                        selectedClass, elementContextMenu,
                                        connectionContextMenu, contextTargetConnection,
                                        connectionMode, sourceElement, tempConnection,
                                        blurCallbacks, focusCallbacks, activeElement>>
      ]_vars

\* C27 witness: a double-click on one shape has arrived while another was
\* being edited with the live text " a b "; that shape's label is now "a b"
\* and the double-clicked shape is selected and being edited, with no menu.
C27_Witness ==
    /\ last.op = "dblclick"
    /\ last.edit # None
    /\ last.arg # last.edit
    /\ last.text = <<" ", "a", " ", "b", " ">>
    /\ name[last.edit] = <<"a", " ", "b">>
    /\ divText[last.edit] = <<"a", " ", "b">>
    /\ selectedElement = last.arg
    /\ currentEditingDiv = last.arg
    /\ elementContextMenu = None
    /\ ~connectionContextMenu

\* C28: while an inline edit is active, a press of the Delete key, or of any
\* key other than Enter and Escape, changes no state of the engine: no shape
\* or connection is removed, the selection and the menus stay as they are
\* and the edit stays active with its text.
C28_KeysIgnoredWhileEditing ==
    [][\A key \in Keys \ {"Enter", "Escape"} :
          (currentEditingDiv # None /\ KeyDown(key))
          => UNCHANGED <<elements, type, name, elConnections, divText, x, y,
                         connections, sourcePoint, targetPoint, idCounter,
                         selectedElement, currentEditingDiv, currentDraggingElement,
                         contentEditable, listeners, selectedClass, elementContextMenu,
                         connectionContextMenu, contextTargetConnection,
                         connectionMode, sourceElement, tempConnection, clickTimeout,
                         lastClickTargetId, timers, blurCallbacks, focusCallbacks,
                         activeElement>>
      ]_vars

\* C28 witness: Delete has been pressed during the edit of a selected shape
\* that has a connection; the shape and the connection are still in their
\* stores, the shape is still selected and still being edited.
C28_Witness ==
    /\ last.op = "Delete"
    /\ last.edit # None
    /\ last.sel = last.edit
    /\ last.sel \in elements
    /\ selectedElement = last.sel
    /\ currentEditingDiv = last.edit
    /\ last.edit \in contentEditable
    /\ connections = last.conns
    /\ \E c \in connections : Touches(c, last.sel) /\ c \in elConnections[last.sel]

\* C29: with no edit active, an Escape key press during a connection draft
\* cancels the draft and changes nothing else (the selection and the menus
\* stay as they are); with no draft it hides every context menu and leaves
\* no shape selected, and changes no store.
C29_EscapeOutsideEdit ==
    [][(currentEditingDiv = None /\ KeyDown("Escape"))
       => /\ UNCHANGED <<elements, type, name, elConnections, divText, x, y,
                         connections, sourcePoint, targetPoint, idCounter,
                         currentEditingDiv, contentEditable>>
          /\ IF connectionMode
             THEN /\ ~connectionMode'
                  /\ sourceElement' = None
                  /\ ~tempConnection'
                  /\ UNCHANGED <<selectedElement, selectedClass, elementContextMenu,
                                 connectionContextMenu, contextTargetConnection,
                                 timers, clickTimeout, lastClickTargetId,
                                 blurCallbacks, focusCallbacks, activeElement>>
             ELSE /\ elementContextMenu' = None
                  /\ ~connectionContextMenu'
                  /\ selectedElement' = None
                  /\ UNCHANGED <<connectionMode, sourceElement, tempConnection>>
      ]_vars

\* C29 witness: Escape has been pressed with no edit active during a draft
\* whose source was the selected shape; the draft is gone and the shape is
\* still selected.
C29_Witness ==
    /\ last.op = "Escape"
    /\ last.edit = None
    /\ last.mode
    /\ last.sel \in elements
    /\ ~connectionMode
    /\ sourceElement = None
    /\ selectedElement = last.sel
    /\ last.sel \in selectedClass

\* C30: a click on a connection of the ConnectionStore commits the edit that
\* is active, if any (the edited shape's label becomes its trimmed live text
\* or its kind's name), leaves no edit active, no shape selected and the
\* element context menu hidden, and shows the connection context menu with
\* the clicked connection as its target; the stores are unchanged.
C30_ConnectionClickShowsItsMenu ==
    [][\A c \in connections :
          ClickConnection(c)
          => /\ \A S \in Ids :
                   currentEditingDiv = S =>
                       /\ name'[S] = OrElse(Trim(divText[S]), type[S])
                       /\ divText'[S] = name'[S]
                       /\ S \notin contentEditable'
             /\ currentEditingDiv' = None
             /\ selectedElement' = None
             /\ elementContextMenu' = None
             /\ connectionContextMenu'
             /\ contextTargetConnection' = c
             /\ UNCHANGED <<elements, connections, elConnections>>
      ]_vars

\* C30 witness: a connection has been clicked during an edit whose live text
\* was " a b "; the edited shape's label is "a b", nothing is selected or
\* edited, the element menu is hidden and the connection menu is shown for
\* the clicked connection, which is in the store.
C30_Witness ==
    /\ last.op = "clickConnection"
    /\ last.edit # None
    /\ last.text = <<" ", "a", " ", "b", " ">>
    /\ name[last.edit] = <<"a", " ", "b">>
    /\ currentEditingDiv = None
    /\ selectedElement = None
    /\ elementContextMenu = None
    /\ connectionContextMenu
    /\ contextTargetConnection.id = last.arg
    /\ contextTargetConnection \in connections

\* C31: after drag-start on a shape no edit is active: an edit that was
\* active, on the dragged shape or on another one, has been committed (its
\* trimmed text, or the type when that is empty, is the label) and its menu
\* is not shown; all context menus are hidden; the dragged shape is the one
\* marked as dragging, and only drag-end changes that mark, to none.
C31_DragStartEndsEdit ==
    [][/\ PointerFree
          => \A e \in Ids :
                DragStart(e)
                => LET S == currentEditingDiv
                   IN  /\ currentEditingDiv' = None
                       /\ S # None => /\ name'[S] = OrElse(Trim(divText[S]), type[S])
                                      /\ divText'[S] = name'[S]
                                      /\ S \notin contentEditable'
                       /\ elementContextMenu' = None
                       /\ ~connectionContextMenu'
                       /\ currentDraggingElement' = e
       /\ (~PointerFree /\ currentDraggingElement' # currentDraggingElement)
          => DragEnd /\ currentDraggingElement' = None
      ]_vars

\* C31 witness: a drag has started on one shape while another was being
\* edited with the live text " a b "; that shape's label is now "a b", no
\* edit is active, no menu is shown and the dragged shape is marked.
C31_Witness ==
    /\ last.op = "dragstart"
    /\ last.edit # None
    /\ last.arg # last.edit
    /\ last.text = <<" ", "a", " ", "b", " ">>
    /\ name[last.edit] = <<"a", " ", "b">>
    /\ divText[last.edit] = <<"a", " ", "b">>
    /\ currentEditingDiv = None
    /\ elementContextMenu = None
    /\ ~connectionContextMenu
    /\ currentDraggingElement = last.arg

C33_PanningOnlyFromBackground ==
    [][/\ (~isPanning /\ isPanning')
          => /\ isPanningKeyPressed
             /\ \E button \in Buttons, client \in ClientPoints :
                   MouseDown(None, button, client)
       /\ \A e \in elements, button \in Buttons, client \in ClientPoints :
             MouseDown(e, button, client) => isPanning' = isPanning
       /\ MouseUp => ~isPanning'
      ]_vars

\* C33 witness: the main button has gone down on a shape while the pan key
\* was held, and the engine is not panning.
C33_Witness ==
    /\ last.op = "mousedown"
    /\ last.arg \in elements
    /\ last.tk = "main"
    /\ isPanningKeyPressed
    /\ cursor = "grab"
    /\ ~isPanning

\* C34: in every reachable state the shapes with the class element-selected
\* are exactly the selected shape when one is selected, and none otherwise.
C34_HighlightIsSelection ==
    selectedClass = IF selectedElement = None THEN {} ELSE {selectedElement}

\* C35: whenever a connection draft is active, its source shape is in the
\* element store.
C35_DraftSourceExists ==
    connectionMode => sourceElement \in elements

\* C36: a click received before the connect action was invoked never
\* produces a connection: when the single-click timer of such a click, still
\* pending when the draft started, expires right after the connect action,
\* the connection store stays as it is.
C36_EarlierClickMakesNoConnection ==
    [][(last.op = "ctx-el-connect" /\ connectionMode)
       => \A t \in timers : TimerExpires(t) => connections' = connections
      ]_vars

\* C37: in every reachable state in which an inline edit is active, the
\* element context menu and the connection context menu are both hidden.
C37_NoMenuWhileEditing ==
    currentEditingDiv # None => (elementContextMenu = None /\ ~connectionContextMenu)

\* C37 witness: an edit of a shape is active, its surface live, with a
\* connection in the store, and neither menu is displayed.
C37_Witness ==
    /\ currentEditingDiv # None
    /\ currentEditingDiv \in contentEditable
    /\ selectedElement = currentEditingDiv
    /\ connections # {}
    /\ elementContextMenu = None
    /\ ~connectionContextMenu

\* C38: whenever the connection context menu has a target, that connection
\* is in the connection store and no shape is selected.
C38_MenuTargetIsStored ==
    contextTargetConnection # NullConnection
    => (contextTargetConnection \in connections /\ selectedElement = None)

\* C38 witness: the connection menu is displayed for a connection of the
\* store, whose two shapes exist, and no shape is selected.
C38_Witness ==
    /\ connectionContextMenu
    /\ contextTargetConnection \in connections
    /\ contextTargetConnection.sourceElement \in elements
    /\ contextTargetConnection.targetElement \in elements
    /\ selectedElement = None

\* a pending single-click timer ends: it expires, or a click or double-click
\* clears it (a click on a shape then sets a new one)
TimerEnds ==
    \/ \E t \in timers : t \notin timers'
    \/ clickTimeout # None /\ \E e \in Ids, tk \in TargetKinds : Click(e, tk)

\* C39: when a single-click timer expires its callback runs once, the timer
\* is no longer pending and clickTimeout and lastClickTargetId are cleared;
\* and no timer stays pending forever: again and again either no timer is
\* pending or a pending timer ends, by expiring or by being cancelled.
C39_ClickTimersEnd ==
    /\ [][\A t \in timers :
            TimerExpires(t) => /\ t \notin timers'
                               /\ clickTimeout' = None
                               /\ lastClickTargetId' = None]_vars
    /\ ([]<>(timers = {}) \/ []<><<TimerEnds>>_vars)

\* C39 witness: the timer of a click on a shape has expired, its callback
\* has run, and no click is pending.
C39_Witness ==
    /\ last.op = "timer"
    /\ last.arg \in elements
    /\ timers = {}
    /\ clickTimeout = None
    /\ lastClickTargetId = None

====
